---------------------------- MODULE Spec2Model ----------------------------
(***************************************************************************)
(* Model of the dream-analysis backend's recurring content generation and  *)
(* freshness engine: the slug rule, the freshness selectors, the category  *)
(* fit validator and the blog scheduler with its generation pipeline.      *)
(*                                                                         *)
(* A JavaScript string is a sequence of one-character strings.  A number   *)
(* that the code obtains as a quotient of two small integers is kept as    *)
(* the pair of them and compared by cross-multiplication, which agrees     *)
(* with the comparison of the correctly rounded doubles for operands of    *)
(* this size.                                                              *)
(***************************************************************************)
EXTENDS Integers, Sequences, FiniteSets, TLC

VARIABLES
    slugTitle,      \* generateSlug: the title handed in
    slugOut,        \* generateSlug: the slug returned
    slugPc,         \* generateSlug: "ready" | "done"
    selKind,        \* selector in use: "item" (selectFreshItem) | "topic"
    selItems,       \* the candidate pool handed in
    selRecent,      \* the history handed in (recentlyUsed / stored titles)
    selResult,      \* position in selItems of the candidate returned
    selPc,          \* selector call: "ready" | "done"
    valCategory,    \* validateCategoryFit: intendedCategory
    valResponse,    \* validateCategoryFit: what the generative service answers
    valResult,      \* validateCategoryFit: what the call produced
    valPc,          \* validateCategoryFit call: "ready" | "done"
    scheduledJobs,  \* blogScheduler: the Map of job name -> cron task (0: no entry)
    cronTasks,      \* the cron tasks created and not stopped
    taskCount,      \* the number of cron tasks created so far
    stopCalls,      \* the number of stopBlogScheduler calls so far
    currentCategoryIndex,   \* blogScheduler: index into educationalCategories
    eveningPostIsDream,     \* blogScheduler: the alternation flag
    runs,           \* the generation runs started, in the order they started
    blog_posts,     \* the rows of table blog_posts
    now,            \* Date.now()
    eveningLog,     \* the content type each evening firing chose, in order
    eveningOverlap, \* an evening firing started while another was in progress
    rejected,       \* admin requests answered without a run: <<route, status>>
    fmtParsed,      \* formatting stage: the object the service's text parses to
    fmtArticle,     \* formatting stage: the article built from it
    fmtPc,          \* formatting stage: "ready" | "done"
    statusLog,      \* what each getSchedulerStatus call returned, in order
    histKind,       \* history query: "content" | "elements" | "topics"
    histOutcome,    \* history query: what the storage call produced
    histResult,     \* history query: what the function produced
    histPc,         \* history query: "ready" | "queried" | "service" | "failed"
    profileUsed,    \* profiles.analyses_used_this_month of the free user
    usedAtStart,    \* its value when the requests of this period's window began
    analysisReqs,   \* the POST /api/analysis requests made, in order
    analyzedDreams, \* the user's dreams whose analysis column is set
    anaResponse,    \* analyzeDream: what the service's text parses to
    anaResult,      \* analyzeDream: what the call produced
    anaPc,          \* analyzeDream call: "ready" | "done"
    tweetConfigured,    \* the four Twitter credentials are set
    tweetClient,        \* twitter.ts: the cached client exists
    tweetPosts,         \* the rows of blog_posts the tweet route reads
    tweetPostsAtStart,  \* the rows before the first tweet request
    tweetReqs           \* the POST /admin/twitter/test requests made, in order

slugVars == <<slugTitle, slugOut, slugPc>>

selVars == <<selKind, selItems, selRecent, selResult, selPc>>

valVars == <<valCategory, valResponse, valResult, valPc>>

schedVars ==
    <<scheduledJobs, cronTasks, taskCount, stopCalls, currentCategoryIndex,
      eveningPostIsDream, runs, blog_posts, now, eveningLog, eveningOverlap,
      rejected>>

fmtVars == <<fmtParsed, fmtArticle, fmtPc>>

\* The variables of the components below the scheduler section.
histVars == <<histKind, histOutcome, histResult, histPc>>

quotaVars == <<profileUsed, usedAtStart, analysisReqs, analyzedDreams>>

normVars == <<anaResponse, anaResult, anaPc>>

tweetVars == <<tweetConfigured, tweetClient, tweetPosts, tweetPostsAtStart, tweetReqs>>

extraVars == <<normVars, tweetVars>>

auxVars == <<fmtVars, statusLog, histVars, quotaVars, extraVars>>

vars == <<slugVars, selVars, valVars, schedVars, auxVars>>

\* The values of a component's variables while another component is checked.
SlugIdle == slugTitle = <<>> /\ slugOut = <<>> /\ slugPc = "idle"

SelIdle ==
    /\ selKind = "none" /\ selItems = <<>> /\ selRecent = <<>>
    /\ selResult = 0 /\ selPc = "idle"

ValIdle ==
    /\ valCategory = "none" /\ valResponse = [kind |-> "none"]
    /\ valResult = [raised |-> FALSE] /\ valPc = "idle"

FmtIdle ==
    /\ fmtParsed = [title |-> <<>>, hasSlug |-> FALSE, slug |-> <<>>]
    /\ fmtArticle = [title |-> <<>>, slug |-> <<>>]
    /\ fmtPc = "idle"

StatusIdle == statusLog = <<>>

HistIdle ==
    /\ histKind = "none" /\ histOutcome = [kind |-> "none"]
    /\ histResult = [raised |-> FALSE, fingerprints |-> <<>>]
    /\ histPc = "idle"

QuotaIdle ==
    /\ profileUsed = 0 /\ usedAtStart = 0
    /\ analysisReqs = <<>> /\ analyzedDreams = {}

NormIdle ==
    /\ anaResponse = [kind |-> "none"]
    /\ anaResult = [raised |-> FALSE]
    /\ anaPc = "idle"

TweetIdle ==
    /\ tweetConfigured = FALSE /\ tweetClient = FALSE
    /\ tweetPosts = {} /\ tweetPostsAtStart = {}
    /\ tweetReqs = <<>>

ExtraIdle == NormIdle /\ TweetIdle

AuxIdle == FmtIdle /\ StatusIdle /\ HistIdle /\ QuotaIdle /\ ExtraIdle

\* The scheduler module as loaded, before startBlogScheduler: no job, index
\* 0 (line 27), the flag false (line 109), an empty table.
SchedInit ==
    /\ scheduledJobs = [morningDream |-> 0, eveningPost |-> 0]
    /\ cronTasks = {}
    /\ taskCount = 0
    /\ stopCalls = 0
    /\ currentCategoryIndex = 0
    /\ eveningPostIsDream = FALSE
    /\ runs = <<>>
    /\ blog_posts = {}
    /\ now = 1
    /\ eveningLog = <<>>
    /\ eveningOverlap = FALSE
    /\ rejected = {}

---------------------------------------------------------------------------
(* Strings                                                                 *)

LowerLetters ==
    {"a","b","c","d","e","f","g","h","i","j","k","l","m",
     "n","o","p","q","r","s","t","u","v","w","x","y","z"}

Digits == {"0","1","2","3","4","5","6","7","8","9"}

\* /\s/ : the whitespace characters the inputs of this model use.
IsSpace(c) == c \in {" ", "\t", "\n"}

\* String.prototype.toLowerCase, character by character.
LowerOf(c) ==
    CASE c = "A" -> "a" [] c = "B" -> "b" [] c = "C" -> "c" [] c = "D" -> "d"
      [] c = "E" -> "e" [] c = "F" -> "f" [] c = "G" -> "g" [] c = "H" -> "h"
      [] c = "I" -> "i" [] c = "J" -> "j" [] c = "K" -> "k" [] c = "L" -> "l"
      [] c = "M" -> "m" [] c = "N" -> "n" [] c = "O" -> "o" [] c = "P" -> "p"
      [] c = "Q" -> "q" [] c = "R" -> "r" [] c = "S" -> "s" [] c = "T" -> "t"
      [] c = "U" -> "u" [] c = "V" -> "v" [] c = "W" -> "w" [] c = "X" -> "x"
      [] c = "Y" -> "y" [] c = "Z" -> "z" [] OTHER -> c

ToLowerCase(s) == [i \in 1..Len(s) |-> LowerOf(s[i])]

Min(a, b) == IF a < b THEN a ELSE b

Max(a, b) == IF a > b THEN a ELSE b

\* String.prototype.substring(0, n)
Substring0(s, n) == SubSeq(s, 1, Min(n, Len(s)))

\* String.prototype.includes
Includes(hay, needle) ==
    /\ Len(needle) <= Len(hay)
    /\ \E i \in 0..(Len(hay) - Len(needle)) :
          SubSeq(hay, i + 1, i + Len(needle)) = needle

RECURSIVE Concat(_)
\* Array.prototype.join('') of a list of strings.
Concat(parts) ==
    IF parts = <<>> THEN <<>> ELSE Head(parts) \o Concat(Tail(parts))

---------------------------------------------------------------------------
(* generateSlug                                                            *)

\* .substring(0, 60)
SlugMaxLen == 60

\* .replace(/[^a-z0-9\s-]/g, '')
StripDisallowed(s) ==
    SelectSeq(s, LAMBDA c : c \in LowerLetters \/ c \in Digits
                              \/ IsSpace(c) \/ c = "-")

\* The positions 1..Len(s), in order.
Positions(s) == [i \in 1..Len(s) |-> i]

\* .replace(/\s+/g, '-') : every maximal run of whitespace becomes one hyphen
\* (the last character of each run is kept, as a hyphen).
ReplaceSpaceRuns(s) ==
    LET kept == SelectSeq(Positions(s),
                    LAMBDA i : ~IsSpace(s[i]) \/ i = Len(s) \/ ~IsSpace(s[i + 1]))
    IN  [k \in 1..Len(kept) |-> IF IsSpace(s[kept[k]]) THEN "-" ELSE s[kept[k]]]

\* .replace(/-+/g, '-') : every maximal run of hyphens becomes one hyphen.
CollapseHyphens(s) ==
    LET kept == SelectSeq(Positions(s),
                    LAMBDA i : s[i] # "-" \/ i = Len(s) \/ s[i + 1] # "-")
    IN  [k \in 1..Len(kept) |-> s[kept[k]]]

\* A slug rule that collapses hyphen runs before it replaces whitespace.
generateSlugCollapseFirst(title) ==
    Substring0(ReplaceSpaceRuns(CollapseHyphens(StripDisallowed(ToLowerCase(title)))),
               SlugMaxLen)

generateSlug(title) ==
    Substring0(CollapseHyphens(ReplaceSpaceRuns(StripDisallowed(ToLowerCase(title)))),
               SlugMaxLen)

---------------------------------------------------------------------------
(* Titles handed to generateSlug                                           *)

\* A title is at most MaxTitlePieces pieces, each a character or a long word.
MaxTitlePieces == 3

\* A word one character short of the slug limit, so that a title of three
\* pieces reaches past the limit.
LongWord == [i \in 1..(SlugMaxLen - 1) |-> "a"]

TitlePieces == {<<"a">>, <<"Z">>, <<"7">>, <<" ">>, <<"-">>, <<"!">>, LongWord}

PieceLists == UNION {[1..n -> TitlePieces] : n \in 0..MaxTitlePieces}

Titles == {Concat(p) : p \in PieceLists}

InitSlug ==
    /\ slugTitle \in Titles
    /\ slugOut = <<>>
    /\ slugPc = "ready"
    /\ SelIdle /\ ValIdle /\ SchedInit /\ AuxIdle

\* One call generateSlug(title).
GenerateSlugCall ==
    /\ slugPc = "ready"
    /\ slugOut' = generateSlug(slugTitle)
    /\ slugPc' = "done"
    /\ UNCHANGED <<slugTitle, selVars, valVars, schedVars, auxVars>>

NextSlug == GenerateSlugCall

SpecSlug == InitSlug /\ [][NextSlug]_vars

---------------------------------------------------------------------------
(* Freshness selectors: selectFreshItem and getRandomEducationalTopic      *)

RECURSIVE SplitFrom(_, _, _, _)
SplitFrom(s, i, cur, acc) ==
    IF i > Len(s) THEN Append(acc, cur)
    ELSE IF IsSpace(s[i])
         THEN IF i > 1 /\ IsSpace(s[i - 1])
              THEN SplitFrom(s, i + 1, cur, acc)
              ELSE SplitFrom(s, i + 1, <<>>, Append(acc, cur))
         ELSE SplitFrom(s, i + 1, Append(cur, s[i]), acc)

\* String.prototype.split(/\s+/) : a leading or trailing run of whitespace
\* leaves an empty first or last word, and "" splits into [""].
SplitWhitespace(s) == SplitFrom(s, 1, <<>>, <<>>)

\* itemWords.filter(w => recentWords.some(rw => rw.includes(w) || w.includes(rw))).length
OverlapCount(itemWords, recentWords) ==
    Cardinality({i \in 1..Len(itemWords) :
        \E j \in 1..Len(recentWords) :
            \/ Includes(recentWords[j], itemWords[i])
            \/ Includes(itemWords[i], recentWords[j])})

\* A quotient num / den of two small naturals, den > 0.
Frac(n, d) == [num |-> n, den |-> d]

FracLess(a, b) == a.num * b.den < b.num * a.den

\* Math.max on two quotients.
FracMax(a, b) == IF FracLess(a, b) THEN b ELSE a

\* similarity < 0.3
FreshThreshold == Frac(3, 10)

\* similarity < 0.5
TopicThreshold == Frac(5, 10)

\* slice(0, Math.min(5, scored.length))
TopFreshCount == 5

RECURSIVE SimilarityReduceSum(_, _, _)
\* A reduce that adds the quotients up instead of keeping the largest.
SimilarityReduceSum(itemWords, recent, max) ==
    IF recent = <<>> THEN max
    ELSE LET q == Frac(OverlapCount(itemWords, SplitWhitespace(Head(recent))),
                       Max(Len(itemWords), 1))
         IN  SimilarityReduceSum(itemWords, Tail(recent),
                Frac(max.num * q.den + q.num * max.den, max.den * q.den))

RECURSIVE SimilarityReduce(_, _, _)
\* recentLower.reduce((max, recent) => Math.max(max, overlap / Math.max(itemWords.length, 1)), 0)
SimilarityReduce(itemWords, recent, max) ==
    IF recent = <<>> THEN max
    ELSE SimilarityReduce(itemWords, Tail(recent),
            FracMax(max, Frac(OverlapCount(itemWords, SplitWhitespace(Head(recent))),
                              Max(Len(itemWords), 1))))

\* The similarity selectFreshItem gives one item (lines 323-332).
ItemSimilarity(item, recentlyUsed) ==
    SimilarityReduce(SplitWhitespace(ToLowerCase(item)),
                     [k \in 1..Len(recentlyUsed) |-> ToLowerCase(recentlyUsed[k])],
                     Frac(0, 1))

\* topicSimilarity(topic, usedTopics): the used topics are taken as they are.
topicSimilarity(topic, usedTopics) ==
    SimilarityReduce(SplitWhitespace(ToLowerCase(topic)), usedTopics, Frac(0, 1))

\* scored.sort((a, b) => a.similarity - b.similarity): the indices of the
\* scores in ascending order, equal scores keeping their order (a stable sort).
SortedBySimilarity(score) ==
    LET idx == DOMAIN score
        Before(i, j) == \/ FracLess(score[i], score[j])
                        \/ (~FracLess(score[j], score[i]) /\ i < j)
        Rank(i) == 1 + Cardinality({j \in idx : Before(j, i)})
    IN  [k \in idx |-> CHOOSE i \in idx : Rank(i) = k]

\* The indices i of score, in order, with score[i] < threshold.
FilterBelow(score, threshold) ==
    SelectSeq([i \in DOMAIN score |-> i], LAMBDA i : FracLess(score[i], threshold))

SeqRange(s) == {s[k] : k \in 1..Len(s)}

\* A variant that keeps an item whose similarity equals the threshold.
selectFreshItemAtMost(items, recentlyUsed, fallbackRandom) ==
    LET scored == [i \in 1..Len(items) |-> ItemSimilarity(items[i], recentlyUsed)]
        fresh  == SelectSeq([i \in 1..Len(items) |-> i],
                            LAMBDA i : ~FracLess(FreshThreshold, scored[i]))
    IN  IF Len(fresh) > 0 THEN SeqRange(fresh)
        ELSE SeqRange(SubSeq(SortedBySimilarity(scored), 1,
                             Min(TopFreshCount, Len(scored))))

\* selectFreshItem(items, recentlyUsed, fallbackRandom): the positions in
\* items of the items one call may return (Math.random picks among them).
selectFreshItem(items, recentlyUsed, fallbackRandom) ==
    LET scored == [i \in 1..Len(items) |-> ItemSimilarity(items[i], recentlyUsed)]
        fresh  == FilterBelow(scored, FreshThreshold)
    IN  IF Len(fresh) > 0 THEN SeqRange(fresh)
        ELSE IF fallbackRandom
             THEN SeqRange(SubSeq(SortedBySimilarity(scored), 1,
                                  Min(TopFreshCount, Len(scored))))
             ELSE 1..Len(items)

RECURSIVE Dedupe(_, _)
\* [...new Set(list)] : the first occurrence of every element, in order.
Dedupe(list, seen) ==
    IF list = <<>> THEN <<>>
    ELSE IF Head(list) \in seen THEN Dedupe(Tail(list), seen)
         ELSE <<Head(list)>> \o Dedupe(Tail(list), seen \cup {Head(list)})

\* getUsedTopics, given the titles of the rows the query returned (the rows
\* of this model carry no tags): the lowercased titles, deduplicated.
getUsedTopics(titles) ==
    Dedupe([k \in 1..Len(titles) |-> ToLowerCase(titles[k])], {})

\* A topic selector that always takes the first fresh topic.
selectTopicFirstFresh(allTopics, usedTopics) ==
    LET scoredTopics == [i \in 1..Len(allTopics) |->
                            topicSimilarity(allTopics[i], usedTopics)]
        freshTopics  == FilterBelow(scoredTopics, TopicThreshold)
    IN  IF Len(freshTopics) > 0 THEN {freshTopics[1]}
        ELSE {SortedBySimilarity(scoredTopics)[1]}

\* getRandomEducationalTopic, lines 968-984, for the topics of the category
\* and the used topics getUsedTopics returned: the positions it may return.
selectTopic(allTopics, usedTopics) ==
    LET scoredTopics == [i \in 1..Len(allTopics) |->
                            topicSimilarity(allTopics[i], usedTopics)]
        freshTopics  == FilterBelow(scoredTopics, TopicThreshold)
    IN  IF Len(freshTopics) > 0 THEN SeqRange(freshTopics)
        ELSE {SortedBySimilarity(scoredTopics)[1]}

---------------------------------------------------------------------------
(* Candidate pools and histories handed to the selectors                   *)

\* A history holds at most MaxHistory strings.
MaxHistory == 2

\* "a b c p q r s t u v": ten words.
TenWords ==
    <<"a"," ","b"," ","c"," ","p"," ","q"," ","r"," ","s"," ","t"," ","u"," ","v">>

\* The candidates a pool is drawn from; a pool is a sub-list of them.
CandidateUniverse ==
    << <<"x">>,
       <<"a"," ","y">>,
       <<"c"," ","y"," ","z">>,
       TenWords,
       <<"a","b">>,
       <<"B"," ","c">>,
       <<>> >>

HistoryUniverse == { <<"a"," ","b"," ","c">>, <<"x">>, <<"A">>, <<>> }

\* The sub-list of CandidateUniverse at the positions in keep.
SubList(keep) ==
    SelectSeq([i \in 1..Len(CandidateUniverse) |-> i], LAMBDA i : i \in keep)

Pools ==
    {[k \in 1..Len(SubList(keep)) |-> CandidateUniverse[SubList(keep)[k]]] :
        keep \in (SUBSET (1..Len(CandidateUniverse))) \ {{}}}

Histories == UNION {[1..n -> HistoryUniverse] : n \in 0..MaxHistory}

InitSelect ==
    /\ selKind \in {"item", "topic"}
    /\ selItems \in Pools
    /\ selRecent \in Histories
    /\ selResult = 0
    /\ selPc = "ready"
    /\ SlugIdle /\ ValIdle /\ SchedInit /\ AuxIdle

\* generateDream's call selectFreshItem(DREAM_SETTINGS, recentElements.settings):
\* the third argument is left to its default, true.
SelectFreshItemCall ==
    /\ selPc = "ready" /\ selKind = "item"
    /\ \E r \in selectFreshItem(selItems, selRecent, TRUE) : selResult' = r
    /\ selPc' = "done"
    /\ UNCHANGED <<selKind, selItems, selRecent, slugVars, valVars, schedVars,
                   auxVars>>

\* getRandomEducationalTopic, with selRecent the titles getUsedTopics read.
GetRandomEducationalTopicCall ==
    /\ selPc = "ready" /\ selKind = "topic"
    /\ \E r \in selectTopic(selItems, getUsedTopics(selRecent)) : selResult' = r
    /\ selPc' = "done"
    /\ UNCHANGED <<selKind, selItems, selRecent, slugVars, valVars, schedVars,
                   auxVars>>

NextSelect == SelectFreshItemCall \/ GetRandomEducationalTopicCall

SpecSelect == InitSelect /\ [][NextSelect]_vars

\* The score the selector in use gives candidate i, and its threshold.
SelScore(i) ==
    IF selKind = "item" THEN ItemSimilarity(selItems[i], selRecent)
    ELSE topicSimilarity(selItems[i], getUsedTopics(selRecent))

SelThreshold == IF selKind = "item" THEN FreshThreshold ELSE TopicThreshold

SelBelow(i) == FracLess(SelScore(i), SelThreshold)

SelExceeds(i) == FracLess(SelThreshold, SelScore(i))

\* Fewer than five candidates score strictly lower than candidate r.
SelAmongLowestFive(r) ==
    Cardinality({j \in 1..Len(selItems) : FracLess(SelScore(j), SelScore(r))}) < 5

(* C1 as stated: the selectors never return a candidate whose score        *)
(* exceeds the threshold unless every candidate exceeds it, and then one   *)
(* of the five lowest; a single candidate below the threshold is returned. *)
C1_NeverAboveUnlessAllAbove ==
    selPc = "done" =>
        /\ SelExceeds(selResult) =>
              /\ \A i \in 1..Len(selItems) : SelExceeds(i)
              /\ SelAmongLowestFive(selResult)
        /\ Cardinality({i \in 1..Len(selItems) : SelBelow(i)}) = 1
              => SelBelow(selResult)

(* C1, amended: the selectors never return a candidate whose score is at   *)
(* or above the threshold unless no candidate scores strictly below it,    *)
(* and then the returned candidate is one of the five lowest-scoring; when *)
(* exactly one candidate scores below the threshold, it is the one         *)
(* returned.                                                               *)
C1_NeverAtOrAboveUnlessNoneBelow ==
    selPc = "done" =>
        /\ ~SelBelow(selResult) =>
              /\ \A i \in 1..Len(selItems) : ~SelBelow(i)
              /\ SelAmongLowestFive(selResult)
        /\ Cardinality({i \in 1..Len(selItems) : SelBelow(i)}) = 1
              => SelBelow(selResult)

\* A pool of more than five candidates, none below the threshold and some
\* scoring differently, has been answered from the fallback.
C1_WitnessFallback ==
    /\ selPc = "done"
    /\ Len(selItems) > 5
    /\ \A i \in 1..Len(selItems) : ~SelBelow(i)
    /\ \E i \in 1..Len(selItems) : FracLess(SelScore(selResult), SelScore(i))
    /\ \E i \in 1..Len(selItems) : ~SelExceeds(i)

---------------------------------------------------------------------------
(* Category fit validator: validateCategoryFit                             *)

\* The keys of STRICT_CATEGORY_DEFINITIONS.
StrictCategories == {"dream-stories", "dream-science", "sleep-tips", "symbolism"}

\* result.confidence > 0.7, with a confidence counted in hundredths.
ConfidenceThreshold == 70

\* The confidences, in hundredths, a verdict of this model may report.
Confidences == {0, 40, 70, 71, 100}

\* A JavaScript value of the verdict's isValid field: a truthy value, a
\* falsy value, or the field missing.
JsFlags == {"true", "false", "undefined"}

\* What anthropic.messages.create and the parse of its text can come to:
\*   throws      the call rejects
\*   noText      the response holds no text block
\*   unparsable  JSON.parse throws on the (fence-stripped) text
\*   null        the text parses to null, so reading result.isValid throws
\*   verdict     the text parses to an object
ServiceResponses ==
    {[kind |-> k] : k \in {"throws", "noText", "unparsable", "null"}}
    \cup [kind : {"verdict"}, isValid : JsFlags, hasConfidence : {TRUE},
          confidence : Confidences, suggested : {"sleep-tips"}]
    \cup [kind : {"verdict"}, isValid : JsFlags, hasConfidence : {FALSE},
          confidence : {0}, suggested : {"sleep-tips"}]

\* result.isValid && result.confidence > 0.7 : a falsy left operand is the
\* value of the expression; undefined > 0.7 is false.
JsAndConfident(r) ==
    IF r.isValid # "true" THEN r.isValid
    ELSE IF r.hasConfidence /\ r.confidence > ConfidenceThreshold
         THEN "true" ELSE "false"

\* What validateCategoryFit hands back: raised (the promise rejects), called
\* (the generative service was asked), and the verdict's fields.
Verdict(raised, called, isValid, suggested) ==
    [raised |-> raised, called |-> called, isValid |-> isValid,
     suggestedCategory |-> suggested]

\* A variant without the try/catch around the call and the parse.
validateCategoryFitNoCatch(intendedCategory, response) ==
    IF response.kind = "verdict"
    THEN Verdict(FALSE, TRUE, JsAndConfident(response), response.suggested)
    ELSE Verdict(response.kind # "noText", TRUE, "true", "undefined")

\* A variant that takes the service's flag without looking at the confidence.
validateCategoryFitAnyConfidence(intendedCategory, response) ==
    IF response.kind = "verdict"
    THEN Verdict(FALSE, TRUE, response.isValid, response.suggested)
    ELSE Verdict(FALSE, TRUE, "true", "undefined")

\* A variant that defaults to fit when the confidence is not above 0.7.
validateCategoryFitFailOpenBelow(intendedCategory, response) ==
    IF response.kind = "verdict"
    THEN Verdict(FALSE, TRUE,
                 IF response.hasConfidence /\ response.confidence > ConfidenceThreshold
                 THEN response.isValid ELSE "true",
                 response.suggested)
    ELSE Verdict(FALSE, TRUE, "true", "undefined")

\* validateCategoryFit(content, title, intendedCategory), content and title
\* being strings, when the generative service answers with response.
validateCategoryFit(intendedCategory, response) ==
    IF intendedCategory \notin StrictCategories
    THEN Verdict(FALSE, FALSE, "true", "undefined")
    ELSE CASE response.kind = "throws"     -> Verdict(FALSE, TRUE, "true", "undefined")
           [] response.kind = "noText"     -> Verdict(FALSE, TRUE, "true", "undefined")
           [] response.kind = "unparsable" -> Verdict(FALSE, TRUE, "true", "undefined")
           [] response.kind = "null"       -> Verdict(FALSE, TRUE, "true", "undefined")
           [] response.kind = "verdict"    ->
                Verdict(FALSE, TRUE, JsAndConfident(response), response.suggested)

InitValidate ==
    /\ valCategory \in StrictCategories \cup {"unknown"}
    /\ valResponse \in ServiceResponses
    /\ valResult = [raised |-> FALSE]
    /\ valPc = "ready"
    /\ SlugIdle /\ SelIdle /\ SchedInit /\ AuxIdle

\* One call validateCategoryFit(content, title, valCategory).
ValidateCategoryFitCall ==
    /\ valPc = "ready"
    /\ valResult' = validateCategoryFit(valCategory, valResponse)
    /\ valPc' = "done"
    /\ UNCHANGED <<valCategory, valResponse, slugVars, selVars, schedVars,
                   auxVars>>

NextValidate == ValidateCategoryFitCall

SpecValidate == InitValidate /\ [][NextValidate]_vars

(* C6: validateCategoryFit never raises; when the generative-service call  *)
(* throws, returns no text or returns text that does not parse to a        *)
(* verdict, it returns isValid = true.                                     *)
C6_ValidatorFailOpen ==
    valPc = "done" =>
        /\ ~valResult.raised
        /\ valResponse.kind # "verdict" => valResult.isValid = "true"

\* The service threw for a known category and the call has returned.
C6_WitnessThrows ==
    /\ valPc = "done" /\ valResult.called
    /\ valResponse.kind = "throws"
    /\ valResult.isValid = "true"

(* C7: when the service returns a parsable verdict, validateCategoryFit    *)
(* reports isValid = true only if the reported confidence exceeds 0.7.     *)
C7_FitOnlyIfConfident ==
    (valPc = "done" /\ valResult.called /\ valResponse.kind = "verdict"
        /\ valResult.isValid = "true")
    => (valResponse.hasConfidence /\ valResponse.confidence > 70)

\* A verdict has been accepted as fit.
C7_WitnessAccepted ==
    /\ valPc = "done" /\ valResult.called
    /\ valResponse.kind = "verdict"
    /\ valResult.isValid = "true"

(* C8 as stated: when the service returns a parsable verdict whose         *)
(* confidence is below 0.7, validateCategoryFit returns isValid = true     *)
(* whatever flag the service reported.                                     *)
C8_LowConfidenceFailsOpen ==
    (valPc = "done" /\ valResult.called /\ valResponse.kind = "verdict"
        /\ valResponse.hasConfidence /\ valResponse.confidence < 70)
    => valResult.isValid = "true"

(* C8, amended: when the service returns a parsable verdict whose          *)
(* confidence is below 0.7, validateCategoryFit never returns isValid =    *)
(* true, whatever flag the service reported: it returns false, or the      *)
(* missing flag itself.                                                    *)
C8_LowConfidenceNeverFit ==
    (valPc = "done" /\ valResult.called /\ valResponse.kind = "verdict"
        /\ valResponse.hasConfidence /\ valResponse.confidence < 70)
    => valResult.isValid \in {"false", "undefined"}

\* The service reported fit with a confidence below the threshold.
C8_WitnessLowConfidenceFit ==
    /\ valPc = "done" /\ valResult.called
    /\ valResponse.kind = "verdict" /\ valResponse.isValid = "true"
    /\ valResponse.hasConfidence /\ valResponse.confidence < 70

---------------------------------------------------------------------------
(* Blog scheduler, admin triggers and the generation pipeline              *)

\* At most MaxRuns generation runs are started.
MaxRuns == 2

\* The cron tasks alone start at most MaxScheduledRuns runs.
MaxScheduledRuns == 3

\* Date.now() takes the values 1..MaxClock.
MaxClock == 2

\* startBlogScheduler is called at most MaxStarts times.
MaxStarts == 1

\* stopBlogScheduler is called at most MaxStops times.
MaxStops == 1

educationalCategories == <<"dream-science", "sleep-tips", "symbolism">>

\* A rotation that advances the index before it reads the category.
getNextEducationalCategoryAdvanceFirst(index) ==
    [category |-> educationalCategories[((index + 1) % 3) + 1],
     index |-> (index + 1) % 3]

\* getNextEducationalCategory: the category returned and the index left.
getNextEducationalCategory(index) ==
    [category |-> educationalCategories[index + 1],
     index    |-> (index + 1) % Len(educationalCategories)]

DigitChar(d) ==
    CASE d = 0 -> "0" [] d = 1 -> "1" [] d = 2 -> "2" [] d = 3 -> "3"
      [] d = 4 -> "4" [] d = 5 -> "5" [] d = 6 -> "6" [] d = 7 -> "7"
      [] d = 8 -> "8" [] d = 9 -> "9"

RECURSIVE NumberToString(_)
\* '-' + Date.now() : the decimal digits of a natural number.
NumberToString(n) ==
    IF n < 10 THEN <<DigitChar(n)>>
    ELSE NumberToString(n \div 10) \o <<DigitChar(n % 10)>>

\* env.BLOG_ADMIN_KEY: envSchema declares no such key, so the parsed env
\* (and the fallback object) holds none.
EnvBlogAdminKey == "undefined"

\* req.headers['x-admin-key']: absent, or a key.
RequestKeys == {"undefined", "secret"}

\* req.body.category of the requests of this model: one educational
\* category and one that is not.
RequestCategories == {"symbolism", "dream-stories"}

\* The objects the formatting call's text parses to: title and slug, the
\* slug possibly missing.
FormatOutputs ==
    { [title |-> <<"D">>, hasSlug |-> TRUE, slug |-> <<"d">>],
      [title |-> <<"D", " ", "1">>, hasSlug |-> FALSE, slug |-> <<>>] }

\* What the validation call answers in a pipeline run.
PipelineResponses ==
    { [kind |-> "throws"],
      [kind |-> "verdict", isValid |-> "true", hasConfidence |-> TRUE,
       confidence |-> 100, suggested |-> "sleep-tips"],
      [kind |-> "verdict", isValid |-> "false", hasConfidence |-> TRUE,
       confidence |-> 40, suggested |-> "sleep-tips"] }

NoArticle == [title |-> <<>>, slug |-> <<>>]

\* title: parsed.title, slug: parsed.slug || generateSlug(parsed.title)
ArticleOf(parsed) ==
    [title |-> parsed.title,
     slug  |-> IF parsed.hasSlug /\ parsed.slug # <<>>
               THEN parsed.slug ELSE generateSlug(parsed.title)]

Finished(run) == run.pc \in {"done", "failed"}

\* The runs whose handler has not returned yet.
ActiveRuns == {i \in 1..Len(runs) : ~Finished(runs[i])}

\* The trigger is one of the two cron jobs.
Scheduled(run) == run.trigger \in {"morning", "evening"}

\* A run as it starts.  stages: the stages that returned; inserts: the
\* number of insert calls made; concurrent: the runs in progress at its start.
NewRun(trigger, kind, category, topic, pc) ==
    [trigger |-> trigger, kind |-> kind, category |-> category, topic |-> topic,
     pc |-> pc, stages |-> {}, article |-> NoArticle, verdict |-> "none",
     warned |-> FALSE, inserts |-> 0, slug |-> <<>>, insertError |-> "none",
     failedAt |-> "none", escaped |-> FALSE, status |-> 0,
     concurrent |-> ActiveRuns]

\* A handler that lets the error out instead of catching it.
FailRunRethrow(run, stage) ==
    [run EXCEPT !.pc = "failed", !.failedAt = stage, !.escaped = TRUE]

\* The catch block of the handler: the scheduler logs the error and
\* returns, a route answers 500.
FailRun(run, stage) ==
    [run EXCEPT !.pc = "failed", !.failedAt = stage,
                !.status = IF Scheduled(run) THEN 0 ELSE 500]

StageDone(run, stage, nextPc) ==
    [run EXCEPT !.stages = @ \cup {stage}, !.pc = nextPc]

\* generateDream returned (ok) or threw.
AfterGenerateDream(run, ok) ==
    IF ok THEN StageDone(run, "source", "analysis") ELSE FailRun(run, "source")

\* A pipeline that goes on to the formatting call when analyzeDream threw.
AfterAnalyzeDreamGoOn(run, ok) ==
    IF ok THEN StageDone(run, "analysis", "format")
    ELSE [run EXCEPT !.pc = "format"]

\* analyzeDream returned (ok) or threw.
AfterAnalyzeDream(run, ok) ==
    IF ok THEN StageDone(run, "analysis", "format") ELSE FailRun(run, "analysis")

\* A pipeline that goes on to the next stage whatever the formatting call did.
AfterFormatGoOn(run, ok, parsed) ==
    IF ok
    THEN [StageDone(run, "format", IF run.kind = "dream" THEN "insert" ELSE "validate")
            EXCEPT !.article = ArticleOf(parsed)]
    ELSE [run EXCEPT !.pc = IF run.kind = "dream" THEN "insert" ELSE "validate"]

\* The formatting call returned text parsing to parsed (ok), or it threw or
\* the text did not parse.
AfterFormat(run, ok, parsed) ==
    IF ok
    THEN [StageDone(run, "format", IF run.kind = "dream" THEN "insert" ELSE "validate")
            EXCEPT !.article = ArticleOf(parsed)]
    ELSE FailRun(run, "format")

\* A generateEducationalPost that throws on a verdict that is not valid.
AfterValidateStrict(run, verdict) ==
    IF verdict.raised THEN FailRun(run, "validate")
    ELSE IF verdict.isValid # "true"
    THEN [FailRun(run, "validate") EXCEPT !.verdict = verdict.isValid, !.warned = TRUE]
    ELSE [StageDone(run, "validate", "insert")
            EXCEPT !.verdict = verdict.isValid, !.warned = FALSE]

\* generateEducationalPost after validateCategoryFit returned verdict: a
\* warning when it is not valid, and the article returned either way.
AfterValidate(run, verdict) ==
    IF verdict.raised THEN FailRun(run, "validate")
    ELSE [StageDone(run, "validate", "insert")
            EXCEPT !.verdict = verdict.isValid,
                   !.warned = (verdict.isValid # "true")]

\* slug: blogPost.slug + '-' + Date.now() in the scheduler, blogPost.slug in
\* the admin routes.
InsertSlug(run, clock) ==
    IF Scheduled(run)
    THEN run.article.slug \o <<"-">> \o NumberToString(clock)
    ELSE run.article.slug

\* A row that takes the narrative category and type whatever the run's kind.
RowOfNarrative(run, i, clock) ==
    [slug |-> InsertSlug(run, clock),
     title |-> run.article.title,
     category |-> "dream-stories",
     generation_type |-> "ai-dream",
     provenance |-> run.kind = "dream",
     run |-> i]

\* The row handed to insert by run i.
RowOf(run, i, clock) ==
    [slug |-> InsertSlug(run, clock),
     title |-> run.article.title,
     category |-> IF run.kind = "dream" THEN "dream-stories" ELSE run.category,
     generation_type |-> IF run.kind = "dream" THEN "ai-dream" ELSE "ai-educational",
     provenance |-> run.kind = "dream",
     run |-> i]

\* insert(...).select().single() returned: error is "none", "duplicate"
\* (slug is UNIQUE) or "storage".
AfterInsert(run, slug, error) ==
    IF error = "none"
    THEN [run EXCEPT !.inserts = @ + 1, !.slug = slug, !.pc = "done",
                     !.stages = @ \cup {"insert"},
                     !.status = IF Scheduled(run) THEN 0 ELSE 200]
    ELSE [FailRun(run, "insert") EXCEPT !.inserts = @ + 1, !.slug = slug,
                                        !.insertError = error]

\* A flag flipped only by a post that was saved.
EveningFlagAfterSaved(flag, run) == IF run.pc = "done" THEN ~flag ELSE flag

\* eveningPostIsDream = !eveningPostIsDream, once the awaited post returned.
EveningFlagAfter(flag, run) == ~flag

\* A flag flipped by every run that returns, whatever started it.
CommitAnyTrigger(i, r) ==
    /\ runs' = [runs EXCEPT ![i] = r]
    /\ eveningPostIsDream' =
          IF Finished(r) THEN EveningFlagAfter(eveningPostIsDream, r)
          ELSE eveningPostIsDream

\* Run i goes on as r; generateEveningPost flips the flag when its post
\* function has returned.
Commit(i, r) ==
    /\ runs' = [runs EXCEPT ![i] = r]
    /\ eveningPostIsDream' =
          IF r.trigger = "evening" /\ Finished(r)
          THEN EveningFlagAfter(eveningPostIsDream, r)
          ELSE eveningPostIsDream

Init ==
    /\ SchedInit
    /\ SlugIdle /\ SelIdle /\ ValIdle /\ AuxIdle

StartBlogScheduler(limit) ==
    /\ taskCount < 2 * limit
    /\ cronTasks' = cronTasks \cup {[id |-> taskCount + 1, name |-> "morningDream"],
                                    [id |-> taskCount + 2, name |-> "eveningPost"]}
    /\ scheduledJobs' = [morningDream |-> taskCount + 1, eveningPost |-> taskCount + 2]
    /\ taskCount' = taskCount + 2
    /\ UNCHANGED <<stopCalls, currentCategoryIndex, eveningPostIsDream, runs,
                   blog_posts, now, eveningLog, eveningOverlap, rejected>>
    /\ UNCHANGED <<slugVars, selVars, valVars, auxVars>>

\* A stop that stops the tasks but leaves the map as it is.
StopBlogSchedulerKeepMap ==
    /\ stopCalls < MaxStops
    /\ stopCalls' = stopCalls + 1
    /\ cronTasks' = {t \in cronTasks :
                        t.id \notin {scheduledJobs.morningDream, scheduledJobs.eveningPost}}
    /\ UNCHANGED scheduledJobs
    /\ UNCHANGED <<taskCount, currentCategoryIndex, eveningPostIsDream, runs,
                   blog_posts, now, eveningLog, eveningOverlap, rejected>>
    /\ UNCHANGED <<slugVars, selVars, valVars, auxVars>>

StopBlogScheduler ==
    /\ stopCalls < MaxStops
    /\ stopCalls' = stopCalls + 1
    /\ cronTasks' = {t \in cronTasks :
                        t.id \notin {scheduledJobs.morningDream, scheduledJobs.eveningPost}}
    /\ scheduledJobs' = [morningDream |-> 0, eveningPost |-> 0]
    /\ UNCHANGED <<taskCount, currentCategoryIndex, eveningPostIsDream, runs,
                   blog_posts, now, eveningLog, eveningOverlap, rejected>>
    /\ UNCHANGED <<slugVars, selVars, valVars, auxVars>>

\* The morning cron task fires: generateDreamPost() starts.
FireMorning(limit) ==
    /\ \E t \in cronTasks : t.name = "morningDream"
    /\ Len(runs) < limit
    /\ runs' = Append(runs, NewRun("morning", "dream", "dream-stories", "none", "source"))
    /\ UNCHANGED <<scheduledJobs, cronTasks, taskCount, stopCalls,
                   currentCategoryIndex, eveningPostIsDream, blog_posts, now,
                   eveningLog, eveningOverlap, rejected>>
    /\ UNCHANGED <<slugVars, selVars, valVars, auxVars>>

\* The evening cron task fires: generateEveningPost() starts and runs to the
\* first await of the post function it chooses.
FireEvening(limit) ==
    /\ \E t \in cronTasks : t.name = "eveningPost"
    /\ Len(runs) < limit
    /\ IF eveningPostIsDream
       THEN /\ runs' = Append(runs, NewRun("evening", "dream", "dream-stories",
                                           "none", "source"))
            /\ eveningLog' = Append(eveningLog, "dream")
            /\ UNCHANGED currentCategoryIndex
       ELSE LET next == getNextEducationalCategory(currentCategoryIndex)
            IN  /\ runs' = Append(runs, NewRun("evening", "educational",
                                               next.category, "promise", "format"))
                /\ eveningLog' = Append(eveningLog, "educational")
                /\ currentCategoryIndex' = next.index
    /\ eveningOverlap' =
          (eveningOverlap \/ \E i \in ActiveRuns : runs[i].trigger = "evening")
    /\ UNCHANGED <<scheduledJobs, cronTasks, taskCount, stopCalls,
                   eveningPostIsDream, blog_posts, now, rejected>>
    /\ UNCHANGED <<slugVars, selVars, valVars, auxVars>>

\* POST /admin/generate/dream with x-admin-key = key.
AdminGenerateDream(key) ==
    /\ Len(runs) < MaxRuns
    /\ IF key # EnvBlogAdminKey
       THEN /\ rejected' = rejected \cup {<<"generate/dream", 401>>}
            /\ UNCHANGED runs
       ELSE /\ runs' = Append(runs, NewRun("manualDream", "dream", "dream-stories",
                                           "none", "source"))
            /\ UNCHANGED rejected
    /\ UNCHANGED <<scheduledJobs, cronTasks, taskCount, stopCalls,
                   currentCategoryIndex, eveningPostIsDream, blog_posts, now,
                   eveningLog, eveningOverlap>>
    /\ UNCHANGED <<slugVars, selVars, valVars, auxVars>>

\* POST /admin/generate/educational with x-admin-key = key and the body
\* {category, topic}; withTopic: the body names a topic.
AdminGenerateEducational(key, category, withTopic) ==
    /\ Len(runs) < MaxRuns
    /\ IF key # EnvBlogAdminKey
       THEN /\ rejected' = rejected \cup {<<"generate/educational", 401>>}
            /\ UNCHANGED runs
       ELSE IF category \notin {"dream-science", "sleep-tips", "symbolism"}
       THEN /\ rejected' = rejected \cup {<<"generate/educational", 400>>}
            /\ UNCHANGED runs
       ELSE /\ runs' = Append(runs,
                  NewRun("manualEducational", "educational", category,
                         IF withTopic THEN "body" ELSE "none",
                         IF withTopic THEN "format" ELSE "topic"))
            /\ UNCHANGED rejected
    /\ UNCHANGED <<scheduledJobs, cronTasks, taskCount, stopCalls,
                   currentCategoryIndex, eveningPostIsDream, blog_posts, now,
                   eveningLog, eveningOverlap>>
    /\ UNCHANGED <<slugVars, selVars, valVars, auxVars>>

StepFrame ==
    /\ UNCHANGED <<scheduledJobs, cronTasks, taskCount, stopCalls,
                   currentCategoryIndex, now, eveningLog, eveningOverlap, rejected>>
    /\ UNCHANGED <<slugVars, selVars, valVars, auxVars>>

\* await getRandomEducationalTopic(category) returns in the admin route.
StepTopic(i) ==
    /\ runs[i].pc = "topic"
    /\ Commit(i, [runs[i] EXCEPT !.topic = "selected", !.pc = "format"])
    /\ UNCHANGED blog_posts
    /\ StepFrame

\* await generateDream() settles.
StepGenerateDream(i) ==
    /\ runs[i].pc = "source"
    /\ \E ok \in BOOLEAN : Commit(i, AfterGenerateDream(runs[i], ok))
    /\ UNCHANGED blog_posts
    /\ StepFrame

\* await analyzeDream(...) settles.
StepAnalyzeDream(i) ==
    /\ runs[i].pc = "analysis"
    /\ \E ok \in BOOLEAN : Commit(i, AfterAnalyzeDream(runs[i], ok))
    /\ UNCHANGED blog_posts
    /\ StepFrame

\* The formatting call of generateDreamBlogPost / generateEducationalPost
\* settles and its text is parsed.
StepFormat(i) ==
    /\ runs[i].pc = "format"
    /\ \/ \E parsed \in FormatOutputs : Commit(i, AfterFormat(runs[i], TRUE, parsed))
       \/ Commit(i, AfterFormat(runs[i], FALSE, CHOOSE parsed \in FormatOutputs : TRUE))
    /\ UNCHANGED blog_posts
    /\ StepFrame

\* await validateCategoryFit(...) settles in generateEducationalPost.
StepValidate(i) ==
    /\ runs[i].pc = "validate"
    /\ \E response \in PipelineResponses :
          Commit(i, AfterValidate(runs[i],
                                  validateCategoryFit(runs[i].category, response)))
    /\ UNCHANGED blog_posts
    /\ StepFrame

\* The insert into blog_posts is made and settles.
StepInsert(i) ==
    /\ runs[i].pc = "insert"
    /\ LET slug == InsertSlug(runs[i], now)
           duplicate == \E row \in blog_posts : row.slug = slug
       IN  \E storageError \in BOOLEAN :
             LET error == IF duplicate THEN "duplicate"
                          ELSE IF storageError THEN "storage" ELSE "none"
             IN  /\ blog_posts' = IF error = "none"
                                  THEN blog_posts \cup {RowOf(runs[i], i, now)}
                                  ELSE blog_posts
                 /\ Commit(i, AfterInsert(runs[i], slug, error))
    /\ StepFrame

\* Time passes.
Tick ==
    /\ now < MaxClock
    /\ now' = now + 1
    /\ UNCHANGED <<scheduledJobs, cronTasks, taskCount, stopCalls,
                   currentCategoryIndex, eveningPostIsDream, runs, blog_posts,
                   eveningLog, eveningOverlap, rejected>>
    /\ UNCHANGED <<slugVars, selVars, valVars, auxVars>>

Next ==
    \/ StartBlogScheduler(MaxStarts)
    \/ StopBlogScheduler
    \/ FireMorning(MaxRuns)
    \/ FireEvening(MaxRuns)
    \/ \E key \in RequestKeys : AdminGenerateDream(key)
    \/ \E key \in RequestKeys, category \in RequestCategories, withTopic \in BOOLEAN :
          AdminGenerateEducational(key, category, withTopic)
    \/ \E i \in 1..Len(runs) : StepTopic(i)
    \/ \E i \in 1..Len(runs) : StepGenerateDream(i)
    \/ \E i \in 1..Len(runs) : StepAnalyzeDream(i)
    \/ \E i \in 1..Len(runs) : StepFormat(i)
    \/ \E i \in 1..Len(runs) : StepValidate(i)
    \/ \E i \in 1..Len(runs) : StepInsert(i)
    \/ Tick

Spec == Init /\ [][Next]_vars

\* The cron tasks alone: no admin request is made.
NextScheduler ==
    \/ StartBlogScheduler(MaxStarts)
    \/ StopBlogScheduler
    \/ FireMorning(MaxScheduledRuns)
    \/ FireEvening(MaxScheduledRuns)
    \/ \E i \in 1..Len(runs) : StepGenerateDream(i)
    \/ \E i \in 1..Len(runs) : StepAnalyzeDream(i)
    \/ \E i \in 1..Len(runs) : StepFormat(i)
    \/ \E i \in 1..Len(runs) : StepValidate(i)
    \/ \E i \in 1..Len(runs) : StepInsert(i)
    \/ Tick

SpecScheduler == Init /\ [][NextScheduler]_vars

---------------------------------------------------------------------------
(* Claims about the scheduler and the pipeline                             *)

RunIds == 1..Len(runs)

GenerationStages == {"source", "analysis", "format"}

\* The generation stages a run of this kind goes through before its insert.
StagesBeforeInsert(run) ==
    IF run.kind = "dream" THEN {"source", "analysis", "format"} ELSE {"format"}

\* The content type the k-th firing of a strict alternation chooses.
AlternationAt(k) == IF k % 2 = 1 THEN "educational" ELSE "dream"

(* C2: from a fresh flag, evening firings that each complete before the next
   starts choose educational, dream, educational, ... in strict alternation,
   whether the individual firings save a post or fail. *)
C2_EveningAlternates ==
    ~eveningOverlap =>
        \A k \in 1..Len(eveningLog) : eveningLog[k] = AlternationAt(k)

\* Three evening firings in a row, none overlapping, the first of which failed.
C2_WitnessAlternatesPastFailure ==
    /\ ~eveningOverlap
    /\ Len(eveningLog) = 3
    /\ \E i \in RunIds : runs[i].trigger = "evening" /\ runs[i].pc = "failed"
                         /\ \E j \in RunIds : j > i /\ runs[j].trigger = "evening"

(* C3: every run invokes the insert at most once, and only after each of its
   generation stages returned; a run one of whose generation stages failed
   never invokes it. *)
C3_InsertOnceAfterAllStages ==
    \A i \in RunIds :
        /\ runs[i].inserts <= 1
        /\ runs[i].inserts >= 1 => StagesBeforeInsert(runs[i]) \subseteq runs[i].stages
        /\ runs[i].failedAt \in GenerationStages =>
              /\ runs[i].inserts = 0
              /\ \A row \in blog_posts : row.run # i

\* A manual run failed in its formatting stage while a scheduled one saved.
C3_WitnessFormatFailure ==
    /\ \E i \in RunIds : ~Scheduled(runs[i]) /\ runs[i].failedAt = "format"
    /\ \E j \in RunIds : Scheduled(runs[j]) /\ runs[j].inserts = 1
                         /\ runs[j].pc = "done"

(* C4: whatever firings failed or are stalled, a scheduler that was started
   and not stopped has both jobs registered and armed, no error has escaped
   a firing handler, and either trigger can fire again. *)
C4_SchedulerSurvivesFailures ==
    (taskCount > 0 /\ stopCalls = 0) =>
        /\ scheduledJobs.morningDream # 0 /\ scheduledJobs.eveningPost # 0
        /\ \E t \in cronTasks : t.id = scheduledJobs.morningDream
        /\ \E t \in cronTasks : t.id = scheduledJobs.eveningPost
        /\ \A i \in RunIds : ~runs[i].escaped
        /\ Len(runs) < MaxScheduledRuns =>
              /\ ENABLED FireMorning(MaxScheduledRuns)
              /\ ENABLED FireEvening(MaxScheduledRuns)

\* One firing failed, another is stalled, and a further one can still start.
C4_WitnessFailedAndStalled ==
    /\ taskCount > 0 /\ stopCalls = 0
    /\ Len(runs) < MaxScheduledRuns
    /\ \E i \in RunIds : runs[i].pc = "failed" /\ runs[i].failedAt = "insert"
    /\ \E j \in RunIds : runs[j].pc = "format"

\* Run j started while run i was in progress.
Overlapping(i, j) == i \in runs[j].concurrent

(* C5: two overlapping runs that both invoked the insert submitted distinct
   slugs, and neither insert was rejected as a duplicate. *)
C5_OverlappingRunsDistinctSlugs ==
    \A i, j \in RunIds :
        (Overlapping(i, j) /\ runs[i].inserts = 1 /\ runs[j].inserts = 1) =>
            /\ runs[i].slug # runs[j].slug
            /\ runs[i].insertError # "duplicate"
            /\ runs[j].insertError # "duplicate"

(* C9: the verdict is advisory: whatever validateCategoryFit answers, the run
   goes on to the insert with the article and category it had, a verdict
   that is not valid only raises the warning, and the row saved is that
   article under the intended category. *)
C9_VerdictAdvisory ==
    /\ \A i \in RunIds :
          /\ runs[i].failedAt # "validate"
          /\ runs[i].verdict # "none" =>
                /\ runs[i].warned = (runs[i].verdict # "true")
                /\ runs[i].article \in {ArticleOf(parsed) : parsed \in FormatOutputs}
    /\ \A row \in blog_posts :
          runs[row.run].kind = "educational" =>
              /\ row.title = runs[row.run].article.title
              /\ row.category = runs[row.run].category
              /\ row.generation_type = "ai-educational"

\* An article whose verdict was "not valid" has been saved.
C9_WitnessUnfitSaved ==
    \E row \in blog_posts :
        /\ runs[row.run].kind = "educational"
        /\ runs[row.run].verdict = "false"
        /\ runs[row.run].warned
        /\ runs[row.run].pc = "done"

---------------------------------------------------------------------------
(* C10: for every title, generateSlug(title) holds only lowercase          *)
(* alphanumerics and hyphens, neither starts nor ends with a hyphen, and   *)
(* is at most 60 characters long.                                          *)
C10_SlugWellFormed ==
    slugPc = "done" =>
        /\ \A i \in 1..Len(slugOut) :
              slugOut[i] \in LowerLetters \cup Digits \cup {"-"}
        /\ Len(slugOut) <= 60
        /\ (slugOut # <<>> => slugOut[1] # "-" /\ slugOut[Len(slugOut)] # "-")

---------------------------------------------------------------------------
(* C11: generateSlug is deterministic and idempotent: the slug returned    *)
(* for a title is the one value the rule gives for it, and applying the    *)
(* rule to that slug gives the slug back.                                  *)
C11_SlugIdempotent ==
    slugPc = "done" =>
        /\ slugOut = generateSlug(slugTitle)
        /\ generateSlug(slugOut) = slugOut

\* A title longer than the limit whose slug was cut right after a hyphen,
\* and which differs from its slug.
C11_WitnessTruncatedAtHyphen ==
    /\ slugPc = "done"
    /\ Len(slugTitle) > SlugMaxLen
    /\ Len(slugOut) = SlugMaxLen
    /\ slugOut[SlugMaxLen] = "-"
    /\ slugOut # slugTitle

---------------------------------------------------------------------------
(* The formatting stage's article, for the objects the service may return  *)

\* parsed.slug as the service may return it: a slug, a string that is no
\* slug, or the empty string.
ServiceSlugs == {<<"d">>, <<"M", "y", " ", "S", "!">>, <<>>}

\* The objects JSON.parse may give: any title, the slug present or not.
ParsedObjects ==
    {[title |-> t, hasSlug |-> TRUE, slug |-> g] : t \in Titles, g \in ServiceSlugs}
    \cup {[title |-> t, hasSlug |-> FALSE, slug |-> <<>>] : t \in Titles}

InitFormat ==
    /\ fmtParsed \in ParsedObjects
    /\ fmtArticle = [title |-> <<>>, slug |-> <<>>]
    /\ fmtPc = "ready"
    /\ SlugIdle /\ SelIdle /\ ValIdle /\ SchedInit /\ StatusIdle /\ HistIdle
    /\ QuotaIdle /\ ExtraIdle

\* The formatting stage builds its result from the parsed object.
BuildArticle ==
    /\ fmtPc = "ready"
    /\ fmtArticle' = ArticleOf(fmtParsed)
    /\ fmtPc' = "done"
    /\ UNCHANGED <<fmtParsed, slugVars, selVars, valVars, schedVars, statusLog,
                   histVars, quotaVars, extraVars>>

NextFormat == BuildArticle

SpecFormat == InitFormat /\ [][NextFormat]_vars

UrlSafe(s) == \A i \in 1..Len(s) : s[i] \in LowerLetters \cup Digits \cup {"-"}

(* C12: every article the formatting stage returns has a non-empty slug    *)
(* made of lowercase alphanumerics and hyphens only, whether the service   *)
(* supplied a slug, omitted it, or gave a title without alphanumerics.     *)
C12_ArticleSlugNonEmptyUrlSafe ==
    fmtPc = "done" => (fmtArticle.slug # <<>> /\ UrlSafe(fmtArticle.slug))

---------------------------------------------------------------------------
(* Scheduler status                                                        *)

\* getSchedulerStatus is called at most MaxStatusCalls times.
MaxStatusCalls == 2

\* The cron tasks start at most MaxStatusRuns runs while status is watched.
MaxStatusRuns == 2

\* scheduledJobs.size
JobsSize(jobs) ==
    (IF jobs.morningDream # 0 THEN 1 ELSE 0) + (IF jobs.eveningPost # 0 THEN 1 ELSE 0)

\* getSchedulerStatus: the jobs present in the map, by name, and running.
getSchedulerStatus(jobs) ==
    [running |-> JobsSize(jobs) > 0,
     jobs |-> (IF jobs.morningDream # 0 THEN <<"Morning Dream Post">> ELSE <<>>)
              \o (IF jobs.eveningPost # 0 THEN <<"Evening Post (alternating)">>
                  ELSE <<>>)]

\* A status call that also empties the job map and rewinds the rotation.
GetSchedulerStatusResetting ==
    /\ Len(statusLog) < MaxStatusCalls
    /\ statusLog' = Append(statusLog, getSchedulerStatus(scheduledJobs))
    /\ scheduledJobs' = [morningDream |-> 0, eveningPost |-> 0]
    /\ currentCategoryIndex' = 0
    /\ UNCHANGED <<cronTasks, taskCount, stopCalls, eveningPostIsDream, runs,
                   blog_posts, now, eveningLog, eveningOverlap, rejected>>
    /\ UNCHANGED <<slugVars, selVars, valVars, fmtVars, histVars, quotaVars, extraVars>>

\* One call getSchedulerStatus().
GetSchedulerStatus ==
    /\ Len(statusLog) < MaxStatusCalls
    /\ statusLog' = Append(statusLog, getSchedulerStatus(scheduledJobs))
    /\ UNCHANGED <<slugVars, selVars, valVars, schedVars, fmtVars, histVars,
                   quotaVars, extraVars>>

\* GET /admin/scheduler with x-admin-key = key.
AdminGetScheduler(key) ==
    IF key # EnvBlogAdminKey
    THEN /\ rejected' = rejected \cup {<<"scheduler", 401>>}
         /\ UNCHANGED <<scheduledJobs, cronTasks, taskCount, stopCalls,
                        currentCategoryIndex, eveningPostIsDream, runs, blog_posts,
                        now, eveningLog, eveningOverlap>>
         /\ UNCHANGED <<slugVars, selVars, valVars, auxVars>>
    ELSE GetSchedulerStatus

\* The scheduler's life cycle and firings, with its status read in between.
NextStatus ==
    \/ StartBlogScheduler(MaxStarts)
    \/ StopBlogScheduler
    \/ FireMorning(MaxStatusRuns)
    \/ FireEvening(MaxStatusRuns)
    \/ \E i \in 1..Len(runs) : StepGenerateDream(i)
    \/ \E i \in 1..Len(runs) : StepAnalyzeDream(i)
    \/ \E i \in 1..Len(runs) : StepFormat(i)
    \/ \E i \in 1..Len(runs) : StepValidate(i)
    \/ \E i \in 1..Len(runs) : StepInsert(i)
    \/ GetSchedulerStatus
    \/ \E key \in RequestKeys : AdminGetScheduler(key)

SpecStatus == Init /\ [][NextStatus]_vars

StoppedStatus == [running |-> FALSE, jobs |-> <<>>]

RunningStatus ==
    [running |-> TRUE,
     jobs |-> <<"Morning Dream Post", "Evening Post (alternating)">>]

(* C13: the scheduler goes stopped -> running -> stopped: before            *)
(* startBlogScheduler the status is running = false with no jobs, a         *)
(* startBlogScheduler call leaves it running = true with both jobs, a       *)
(* stopBlogScheduler call leaves it running = false with no jobs, no other  *)
(* step changes it, and every status call returns it.                       *)
C13_StatusFollowsLifecycle ==
    /\ getSchedulerStatus(scheduledJobs) = StoppedStatus
    /\ [][ /\ taskCount' # taskCount =>
                getSchedulerStatus(scheduledJobs') = RunningStatus
           /\ stopCalls' # stopCalls =>
                getSchedulerStatus(scheduledJobs') = StoppedStatus
           /\ (taskCount' = taskCount /\ stopCalls' = stopCalls) =>
                getSchedulerStatus(scheduledJobs') = getSchedulerStatus(scheduledJobs)
           /\ Len(statusLog') > Len(statusLog) =>
                statusLog'[Len(statusLog')] = getSchedulerStatus(scheduledJobs)
       ]_vars

\* Status was read while running and again after the stop.
C13_WitnessRunningThenStopped ==
    /\ statusLog = <<RunningStatus, StoppedStatus>>
    /\ taskCount > 0 /\ stopCalls > 0

(* C14: a getSchedulerStatus call, and a GET /admin/scheduler request       *)
(* whether accepted or refused, leaves the job map, the cron tasks, the     *)
(* alternation flag and the category index as they were.                    *)
C14_StatusReadOnly ==
    [][ (statusLog' # statusLog \/ rejected' # rejected) =>
            UNCHANGED <<scheduledJobs, cronTasks, eveningPostIsDream,
                        currentCategoryIndex>>
      ]_vars

\* Status was read twice while running, after an evening firing had
\* advanced the rotation and flipped the flag.
C14_WitnessReadWhileRotated ==
    /\ statusLog = <<RunningStatus, RunningStatus>>
    /\ eveningPostIsDream
    /\ currentCategoryIndex = 1
    /\ scheduledJobs.eveningPost # 0

---------------------------------------------------------------------------
\* Run i is started or moved by this step.
RunMoves(i) == i > Len(runs) \/ runs'[i] # runs[i]

(* C15: no step of a manual run (its start, any of its stages, its insert,  *)
(* its failure) and no refused admin request changes the alternation flag   *)
(* or the educational category index.                                       *)
C15_ManualLeavesAlternation ==
    [][ ((\E i \in 1..Len(runs') : ~Scheduled(runs'[i]) /\ RunMoves(i))
            \/ rejected' # rejected) =>
            UNCHANGED <<eveningPostIsDream, currentCategoryIndex>>
      ]_vars

\* A manual educational run was saved after an evening firing had flipped
\* the flag and advanced the rotation.
C15_WitnessManualAfterEvening ==
    /\ eveningPostIsDream
    /\ currentCategoryIndex = 1
    /\ \E i \in RunIds : /\ runs[i].trigger = "manualEducational"
                         /\ runs[i].pc = "done"
                         /\ \E j \in RunIds : j < i /\ runs[j].trigger = "evening"

---------------------------------------------------------------------------
(* C16: an admin request that does not present the pre-shared secret is     *)
(* answered 401 and starts no generation run and no insert; with the secret *)
(* unset no request can present it, so no manual run is ever started and no *)
(* row comes from one.                                                      *)
C16_NoSecretNoManualRun ==
    EnvBlogAdminKey = "undefined" =>
        /\ \A i \in RunIds : Scheduled(runs[i])
        /\ \A row \in blog_posts : Scheduled(runs[row.run])

---------------------------------------------------------------------------
(* The historical-content queries                                          *)

\* A query returns at most MaxRows rows.
MaxRows == 2

\* Rows of blog_posts as a query may return them.  titleOk: title is a
\* string; tagsKind: tags is null, a list of strings, a string, or a list
\* holding an element that is no string; hasSetting: generated_dream is
\* present with a setting.
RowUniverse ==
    { [titleOk |-> TRUE, title |-> <<"A", " ", "b">>, tagsKind |-> "list",
       tags |-> << <<"T">> >>, hasSetting |-> TRUE, setting |-> <<"S">>],
      [titleOk |-> TRUE, title |-> <<"a", " ", "b">>, tagsKind |-> "null",
       tags |-> <<>>, hasSetting |-> FALSE, setting |-> <<>>],
      [titleOk |-> FALSE, title |-> <<>>, tagsKind |-> "null",
       tags |-> <<>>, hasSetting |-> TRUE, setting |-> <<"s">>],
      [titleOk |-> TRUE, title |-> <<"x">>, tagsKind |-> "string",
       tags |-> <<>>, hasSetting |-> FALSE, setting |-> <<>>],
      [titleOk |-> TRUE, title |-> <<"x">>, tagsKind |-> "badElement",
       tags |-> <<>>, hasSetting |-> FALSE, setting |-> <<>>] }

\* What the awaited storage call produces: it rejects, or resolves to
\* {data, error} with an error, with data null, or with rows.
StorageOutcomes ==
    {[kind |-> "throws"], [kind |-> "error"], [kind |-> "null"]}
    \cup {[kind |-> "rows", rows |-> r] :
            r \in UNION {[1..n -> RowUniverse] : n \in 0..MaxRows}}

EmptyFingerprints(n) == [raised |-> FALSE, fingerprints |-> [k \in 1..n |-> <<>>]]

LowerAll(list) == [k \in 1..Len(list) |-> ToLowerCase(list[k])]

\* The lowercased tags a row contributes.
TagsOf(row) == IF row.tagsKind = "list" THEN LowerAll(row.tags) ELSE <<>>

\* Reading the tags of the row throws: an element has no toLowerCase, or,
\* where Array.isArray is not asked first, the value has no map.
TagsThrow(row, checksArray) ==
    \/ row.tagsKind = "badElement"
    \/ ~checksArray /\ row.tagsKind = "string"

\* getExistingContentByCategory with every throw let out of the function.
getExistingContentByCategoryNoCatch(outcome) ==
    IF outcome.kind = "throws" THEN [raised |-> TRUE, fingerprints |-> <<>>]
    ELSE IF outcome.kind \in {"error", "null"} THEN EmptyFingerprints(2)
    ELSE LET rows == outcome.rows
         IN  IF \E k \in 1..Len(rows) : ~rows[k].titleOk \/ TagsThrow(rows[k], TRUE)
             THEN [raised |-> TRUE, fingerprints |-> <<>>]
             ELSE [raised |-> FALSE,
                   fingerprints |->
                     << Dedupe([k \in 1..Len(rows) |-> ToLowerCase(rows[k].title)], {}),
                        Dedupe(Concat([k \in 1..Len(rows) |-> TagsOf(rows[k])]), {}) >>]

\* getExistingContentByCategory: titles and topics (the rows of this model
\* carry no dream_analysis, so symbols and themes stay empty and are left out).
getExistingContentByCategory(outcome) ==
    IF outcome.kind = "throws" THEN EmptyFingerprints(2)
    ELSE IF outcome.kind \in {"error", "null"} THEN EmptyFingerprints(2)
    ELSE LET rows == outcome.rows
         IN  IF \E k \in 1..Len(rows) : ~rows[k].titleOk \/ TagsThrow(rows[k], TRUE)
             THEN EmptyFingerprints(2)
             ELSE [raised |-> FALSE,
                   fingerprints |->
                     << Dedupe([k \in 1..Len(rows) |-> ToLowerCase(rows[k].title)], {}),
                        Dedupe(Concat([k \in 1..Len(rows) |-> TagsOf(rows[k])]), {}) >>]

\* getRecentlyUsedDreamElements: settings and themes (symbols left out, as
\* above); the themes of this model come from the tags.
getRecentlyUsedDreamElements(outcome) ==
    IF outcome.kind = "throws" THEN EmptyFingerprints(2)
    ELSE IF outcome.kind \in {"error", "null"} THEN EmptyFingerprints(2)
    ELSE LET rows == outcome.rows
             withSetting == SelectSeq(rows, LAMBDA r : r.hasSetting)
         IN  IF \E k \in 1..Len(rows) : TagsThrow(rows[k], FALSE)
             THEN EmptyFingerprints(2)
             ELSE [raised |-> FALSE,
                   fingerprints |->
                     << Dedupe([k \in 1..Len(withSetting) |->
                                   ToLowerCase(withSetting[k].setting)], {}),
                        Dedupe(Concat([k \in 1..Len(rows) |-> TagsOf(rows[k])]), {}) >>]

\* getUsedTopics on the storage outcome: per row the title, then its tags.
getUsedTopicsOf(outcome) ==
    IF outcome.kind = "throws" THEN EmptyFingerprints(1)
    ELSE IF outcome.kind \in {"error", "null"} THEN EmptyFingerprints(1)
    ELSE LET rows == outcome.rows
         IN  IF \E k \in 1..Len(rows) : ~rows[k].titleOk \/ TagsThrow(rows[k], FALSE)
             THEN EmptyFingerprints(1)
             ELSE [raised |-> FALSE,
                   fingerprints |->
                     << Dedupe(Concat([k \in 1..Len(rows) |->
                                  <<ToLowerCase(rows[k].title)>> \o TagsOf(rows[k])]),
                               {}) >>]

HistoryQuery(kind, outcome) ==
    CASE kind = "content"  -> getExistingContentByCategory(outcome)
      [] kind = "elements" -> getRecentlyUsedDreamElements(outcome)
      [] kind = "topics"   -> getUsedTopicsOf(outcome)

InitHistory ==
    /\ histKind \in {"content", "elements", "topics"}
    /\ histOutcome \in StorageOutcomes
    /\ histResult = [raised |-> FALSE, fingerprints |-> <<>>]
    /\ histPc = "ready"
    /\ SlugIdle /\ SelIdle /\ ValIdle /\ SchedInit /\ FmtIdle /\ StatusIdle
    /\ QuotaIdle /\ ExtraIdle

\* The query function is awaited and settles.
HistoryQueryCall ==
    /\ histPc = "ready"
    /\ histResult' = HistoryQuery(histKind, histOutcome)
    /\ histPc' = "queried"
    /\ UNCHANGED <<histKind, histOutcome, slugVars, selVars, valVars, schedVars,
                   fmtVars, statusLog, quotaVars, extraVars>>

\* The caller (generateEducationalPost, generateDream,
\* getRandomEducationalTopic) goes on with what it got: to building its
\* prompt and its service call, unless the await threw.
ProceedAfterHistory ==
    /\ histPc = "queried"
    /\ histPc' = IF histResult.raised THEN "failed" ELSE "service"
    /\ UNCHANGED <<histKind, histOutcome, histResult, slugVars, selVars, valVars,
                   schedVars, fmtVars, statusLog, quotaVars, extraVars>>

NextHistory == HistoryQueryCall \/ ProceedAfterHistory

SpecHistory == InitHistory /\ [][NextHistory]_vars

\* The storage call rejected, reported an error or gave no data, or a row
\* made the processing throw.
HistoryFailed ==
    \/ histOutcome.kind \in {"throws", "error", "null"}
    \/ /\ histOutcome.kind = "rows"
       /\ \E k \in 1..Len(histOutcome.rows) :
             \/ histOutcome.rows[k].tagsKind = "badElement"
             \/ histKind # "content" /\ histOutcome.rows[k].tagsKind = "string"
             \/ histKind # "elements" /\ ~histOutcome.rows[k].titleOk

(* C17: the historical-content queries never raise; when the storage call   *)
(* rejects, reports an error or gives no data, or a row makes the           *)
(* processing throw, they return empty lists; and the caller goes on to its *)
(* service call.                                                            *)
C17_HistoryFailsSoft ==
    histPc \in {"queried", "service", "failed"} =>
        /\ ~histResult.raised
        /\ histPc # "failed"
        /\ HistoryFailed =>
              \A k \in 1..Len(histResult.fingerprints) :
                  histResult.fingerprints[k] = <<>>
        /\ histPc = "queried" => ENABLED ProceedAfterHistory

\* A row without a title made getExistingContentByCategory throw inside;
\* it returned empty lists and the run went on to the service call.
C17_WitnessRowThrows ==
    /\ histPc = "service"
    /\ histKind = "content"
    /\ histOutcome.kind = "rows"
    /\ Len(histOutcome.rows) = 2
    /\ histOutcome.rows[1].titleOk /\ ~histOutcome.rows[2].titleOk
    /\ histResult.fingerprints = << <<>>, <<>> >>

---------------------------------------------------------------------------
(* The analysis quota of a free-tier user                                  *)

\* env.FREE_ANALYSES_PER_MONTH (default '3')
FREE_ANALYSES_PER_MONTH == 3

\* At most MaxRequests analysis requests are made.
MaxRequests == 2

\* The user's dreams.
DreamIds == {1, 2}

otherThanQuota ==
    <<slugVars, selVars, valVars, schedVars, fmtVars, statusLog, histVars, extraVars>>

InitAnalysis ==
    /\ profileUsed \in 0..FREE_ANALYSES_PER_MONTH
    /\ usedAtStart = profileUsed
    /\ analysisReqs = <<>>
    /\ analyzedDreams = {}
    /\ SlugIdle /\ SelIdle /\ ValIdle /\ SchedInit /\ FmtIdle /\ StatusIdle /\ HistIdle
    /\ ExtraIdle

\* authMiddleware read the profile (seen), then the route checks the limit
\* against that copy: 403 when it is reached.
AnalysisRequest(dreamId) ==
    /\ Len(analysisReqs) < MaxRequests
    /\ analysisReqs' = Append(analysisReqs,
          [dreamId |-> dreamId, seen |-> profileUsed, read |-> 0,
           pc |-> IF profileUsed < FREE_ANALYSES_PER_MONTH THEN "fetch" ELSE "done",
           status |-> IF profileUsed < FREE_ANALYSES_PER_MONTH THEN 0 ELSE 403])
    /\ UNCHANGED <<profileUsed, usedAtStart, analyzedDreams, otherThanQuota>>

\* The dream is fetched: 404 when the query fails, 400 when it holds an
\* analysis already.
FetchDream(i) ==
    /\ analysisReqs[i].pc = "fetch"
    /\ \E found \in BOOLEAN :
          analysisReqs' = [analysisReqs EXCEPT ![i] =
              IF ~found THEN [@ EXCEPT !.pc = "done", !.status = 404]
              ELSE IF @.dreamId \in analyzedDreams
                   THEN [@ EXCEPT !.pc = "done", !.status = 400]
                   ELSE [@ EXCEPT !.pc = "analyze"]]
    /\ UNCHANGED <<profileUsed, usedAtStart, analyzedDreams, otherThanQuota>>

\* await analyzeDream(...) settles.
AnalyzeForUser(i) ==
    /\ analysisReqs[i].pc = "analyze"
    /\ \E ok \in BOOLEAN :
          analysisReqs' = [analysisReqs EXCEPT ![i] =
              IF ok THEN [@ EXCEPT !.pc = "save"]
              ELSE [@ EXCEPT !.pc = "done", !.status = 500]]
    /\ UNCHANGED <<profileUsed, usedAtStart, analyzedDreams, otherThanQuota>>

\* The analysis is written to the dream; an update error answers 500.
SaveAnalysis(i) ==
    /\ analysisReqs[i].pc = "save"
    /\ \E ok \in BOOLEAN :
          IF ok
          THEN /\ analyzedDreams' = analyzedDreams \cup {analysisReqs[i].dreamId}
               /\ analysisReqs' = [analysisReqs EXCEPT ![i].pc = "increment"]
          ELSE /\ UNCHANGED analyzedDreams
               /\ analysisReqs' = [analysisReqs EXCEPT ![i].pc = "done",
                                                       ![i].status = 500]
    /\ UNCHANGED <<profileUsed, usedAtStart, otherThanQuota>>

\* incrementAnalysisCount, first update: it adds one in the database, or it
\* reports an error and the fallback begins.
IncrementUpdate(i) ==
    /\ analysisReqs[i].pc = "increment"
    /\ \/ /\ profileUsed' = profileUsed + 1
          /\ analysisReqs' = [analysisReqs EXCEPT ![i].pc = "done", ![i].status = 200]
       \/ /\ UNCHANGED profileUsed
          /\ analysisReqs' = [analysisReqs EXCEPT ![i].pc = "fallbackRead"]
    /\ UNCHANGED <<usedAtStart, analyzedDreams, otherThanQuota>>

\* incrementAnalysisCount, fallback: the counter is read (or no profile
\* comes back and nothing is written).
FallbackRead(i) ==
    /\ analysisReqs[i].pc = "fallbackRead"
    /\ \E found \in BOOLEAN :
          analysisReqs' = [analysisReqs EXCEPT ![i] =
              IF found THEN [@ EXCEPT !.pc = "fallbackWrite", !.read = profileUsed]
              ELSE [@ EXCEPT !.pc = "done", !.status = 200]]
    /\ UNCHANGED <<profileUsed, usedAtStart, analyzedDreams, otherThanQuota>>

\* incrementAnalysisCount, fallback: the value read plus one is written.
FallbackWrite(i) ==
    /\ analysisReqs[i].pc = "fallbackWrite"
    /\ profileUsed' = analysisReqs[i].read + 1
    /\ analysisReqs' = [analysisReqs EXCEPT ![i].pc = "done", ![i].status = 200]
    /\ UNCHANGED <<usedAtStart, analyzedDreams, otherThanQuota>>

NextAnalysis ==
    \/ \E d \in DreamIds : AnalysisRequest(d)
    \/ \E i \in 1..Len(analysisReqs) : FetchDream(i)
    \/ \E i \in 1..Len(analysisReqs) : AnalyzeForUser(i)
    \/ \E i \in 1..Len(analysisReqs) : SaveAnalysis(i)
    \/ \E i \in 1..Len(analysisReqs) : IncrementUpdate(i)
    \/ \E i \in 1..Len(analysisReqs) : FallbackRead(i)
    \/ \E i \in 1..Len(analysisReqs) : FallbackWrite(i)

SpecAnalysis == InitAnalysis /\ [][NextAnalysis]_vars

\* The requests whose analysis was produced and saved.
SuccessfulAnalyses ==
    {i \in 1..Len(analysisReqs) :
        analysisReqs[i].pc \in {"increment", "fallbackRead", "fallbackWrite"}
        \/ analysisReqs[i].status = 200}

(* C18: under any interleaving of one free user's analysis requests, the   *)
(* analyses obtained in the period never exceed FREE_ANALYSES_PER_MONTH,    *)
(* and once every request has been answered the stored counter equals the   *)
(* number of analyses obtained.                                             *)
C18_QuotaNeverExceeded ==
    /\ usedAtStart + Cardinality(SuccessfulAnalyses) <= FREE_ANALYSES_PER_MONTH
    /\ (\A i \in 1..Len(analysisReqs) : analysisReqs[i].pc = "done") =>
          profileUsed = usedAtStart + Cardinality(SuccessfulAnalyses)

---------------------------------------------------------------------------
\* Runs i and j are evening firings with no evening firing between them.
ConsecutiveEvening(i, j) ==
    /\ i < j
    /\ runs[i].trigger = "evening" /\ runs[j].trigger = "evening"
    /\ \A k \in RunIds : (i < k /\ k < j) => runs[k].trigger # "evening"

(* C19: an evening firing that starts while the previous evening firing is  *)
(* still in progress chooses the other content type.                        *)
C19_OverlappingEveningAlternate ==
    \A i, j \in RunIds :
        (ConsecutiveEvening(i, j) /\ Overlapping(i, j)) =>
            runs[i].kind # runs[j].kind

\* The positions the selector in use may return for the pool and history.
SelPossible ==
    IF selKind = "item" THEN selectFreshItem(selItems, selRecent, TRUE)
    ELSE selectTopic(selItems, getUsedTopics(selRecent))

(* C20: when no candidate scores below the threshold, the selector in use   *)
(* picks among the min(5, pool size) lowest-scoring candidates, and each of *)
(* them is a possible result.                                               *)
C20_FallbackAmongLowestFive ==
    (selPc = "ready" /\ \A i \in 1..Len(selItems) : ~SelBelow(i)) =>
        /\ \A r \in SelPossible : SelAmongLowestFive(r)
        /\ Cardinality(SelPossible) = Min(5, Len(selItems))

---------------------------------------------------------------------------
\* The history as the selector in use compares against it: lowercased, and
\* for the topic selector deduplicated.
SelHistory ==
    IF selKind = "item" THEN LowerAll(selRecent) ELSE getUsedTopics(selRecent)

\* The tokens of candidate i, lowercased.
SelTokens(i) == SplitWhitespace(ToLowerCase(selItems[i]))

\* Token w of a candidate matches history item h: it contains, or is
\* contained in, some token of h.
TokenMatches(w, h) ==
    \E q \in 1..Len(SplitWhitespace(h)) :
        Includes(SplitWhitespace(h)[q], w) \/ Includes(w, SplitWhitespace(h)[q])

\* The number of tokens of candidate i that match history item h.
MatchedTokens(i, h) ==
    Cardinality({p \in 1..Len(SelTokens(i)) : TokenMatches(SelTokens(i)[p], h)})

FracEq(a, b) == a.num * b.den = b.num * a.den

(* C21: a candidate's score is the largest, over the history items, of the *)
(* matched-token count divided by the candidate's token count; it lies in   *)
(* [0,1], is 0 when no token matches any history item, is 1 when the        *)
(* candidate's token set is that of a history item, and the inline scoring  *)
(* of selectFreshItem and topicSimilarity agree on lowercase inputs.        *)
C21_SimilarityIsMaxRatio ==
    \A i \in 1..Len(selItems) :
        LET score == SelScore(i)
            n == Len(SelTokens(i))
            hist == SelHistory
        IN  /\ score.den > 0 /\ 0 <= score.num /\ score.num <= score.den
            /\ \A k \in 1..Len(hist) :
                  ~FracLess(score, Frac(MatchedTokens(i, hist[k]), n))
            /\ IF hist = <<>> THEN score.num = 0
               ELSE \E k \in 1..Len(hist) :
                       FracEq(score, Frac(MatchedTokens(i, hist[k]), n))
            /\ (\A k \in 1..Len(hist) : MatchedTokens(i, hist[k]) = 0) => score.num = 0
            /\ (\E k \in 1..Len(hist) :
                   SeqRange(SplitWhitespace(hist[k])) = SeqRange(SelTokens(i)))
                  => score.num = score.den
            /\ FracEq(ItemSimilarity(selItems[i], hist), topicSimilarity(selItems[i], hist))

\* A pool scored against two history items, holding a candidate that
\* scores 0, one that scores 1 and one strictly in between.
C21_WitnessPartialOverlap ==
    /\ selPc = "done"
    /\ Len(SelHistory) = 2
    /\ \E i \in 1..Len(selItems) : SelScore(i).num = 0
    /\ \E i \in 1..Len(selItems) : SelScore(i).num = SelScore(i).den
    /\ \E i \in 1..Len(selItems) : 0 < SelScore(i).num /\ SelScore(i).num < SelScore(i).den

---------------------------------------------------------------------------
(* C22: with an empty history every candidate scores 0 and every candidate  *)
(* of the pool is a possible result of the selector in use.                 *)
C22_EmptyHistoryAllPossible ==
    selRecent = <<>> =>
        /\ \A i \in 1..Len(selItems) : SelScore(i).num = 0
        /\ selPc = "ready" => SelPossible = 1..Len(selItems)
        /\ selPc = "done" => selResult \in 1..Len(selItems)

\* With an empty history the topic selector returned the last of seven.
C22_WitnessLastOfPool ==
    /\ selPc = "done" /\ selKind = "topic"
    /\ selRecent = <<>>
    /\ Len(selItems) = 7
    /\ selResult = 7


---------------------------------------------------------------------------
(* Stage order of the narrative pipeline                                   *)

\* The position of a program point in the handler's text.
StageRank(pc) ==
    CASE pc = "topic" -> 0
      [] pc = "source" -> 1
      [] pc = "analysis" -> 2
      [] pc = "format" -> 3
      [] pc = "validate" -> 4
      [] pc = "insert" -> 5
      [] OTHER -> 6

\* The stages of generateFullDreamPost that come before stage.
DreamStagesBefore(stage) ==
    CASE stage = "source" -> {}
      [] stage = "analysis" -> {"source"}
      [] stage = "format" -> {"source", "analysis"}
      [] OTHER -> {"source", "analysis", "format"}

DreamRuns == {i \in RunIds : runs[i].kind = "dream"}

(* C23: a narrative run goes through source, analysis, formatting in that
   order: a stage is entered only when exactly the stages before it have
   returned, every move of the run takes it strictly forward (so no stage's
   call is made twice), and a run that failed in a stage is over, with no
   later stage returned. *)
C23_StagesInOrderOnce ==
    /\ [](\A i \in DreamRuns :
            /\ runs[i].pc \in GenerationStages =>
                  runs[i].stages = DreamStagesBefore(runs[i].pc)
            /\ runs[i].failedAt \in GenerationStages =>
                  /\ runs[i].pc = "failed"
                  /\ runs[i].stages = DreamStagesBefore(runs[i].failedAt))
    /\ [][\A i \in DreamRuns :
            runs'[i] # runs[i] =>
               /\ StageRank(runs'[i].pc) > StageRank(runs[i].pc)
               /\ runs[i].pc \in {"source", "analysis"} =>
                     runs'[i].pc \in {"failed", IF runs[i].pc = "source"
                                                THEN "analysis" ELSE "format"}]_vars

\* One narrative run was aborted by its analysis stage and another went
\* through all three stages and was saved.
C23_WitnessAbortedAtAnalysis ==
    /\ \E i \in DreamRuns : /\ runs[i].failedAt = "analysis"
                            /\ runs[i].stages = {"source"}
                            /\ runs[i].inserts = 0
    /\ \E j \in DreamRuns : /\ runs[j].pc = "done"
                            /\ GenerationStages \subseteq runs[j].stages


---------------------------------------------------------------------------
(* The topic of a scheduled educational post                               *)

\* The educational runs the evening cron task started.
ScheduledEducationalRuns ==
    {i \in RunIds : Scheduled(runs[i]) /\ runs[i].kind = "educational"}

(* C24: in every scheduled educational firing, what is handed to the
   formatting stage as the topic is a string the selector returned before
   the formatting call was made. *)
C24_ScheduledTopicResolved ==
    \A i \in ScheduledEducationalRuns :
        StageRank(runs[i].pc) >= StageRank("format") => runs[i].topic = "selected"


---------------------------------------------------------------------------
(* analyzeDream: the analysis built from the service's answer              *)

\* The longest symbols / emotions list of a modelled answer.
MaxEntries == 2

\* ['high', 'medium', 'low']
Significances == {"high", "medium", "low"}

\* The numbers JSON.parse may give for an intensity: below, at and above
\* the two limits (an overflowing literal parses to an infinity, which the
\* limits treat as any other number beyond them).
IntensityValues == {0 - 1, 0, 37, 100, 101}

\* An element of parsed.symbols: an object whose fields may be missing, or null.
SymbolEntries ==
    { [kind |-> "object", hasName |-> TRUE, name |-> "door",
       hasSignificance |-> TRUE, significance |-> "high"],
      [kind |-> "object", hasName |-> FALSE, name |-> "",
       hasSignificance |-> TRUE, significance |-> "critical"],
      [kind |-> "object", hasName |-> TRUE, name |-> "door",
       hasSignificance |-> FALSE, significance |-> ""],
      [kind |-> "null"] }

\* An element of parsed.emotions: the intensity is a number, a string or missing.
EmotionEntries ==
    { [kind |-> "object", name |-> "joy",
       intensity |-> [type |-> "number", value |-> v]] : v \in IntensityValues }
    \cup { [kind |-> "object", name |-> "joy",
            intensity |-> [type |-> "string", value |-> 0]],
           [kind |-> "object", name |-> "",
            intensity |-> [type |-> "undefined", value |-> 0]] }

\* The sequences over S of length at most n.
ListsUpTo(S, n) == UNION {[1..k -> S] : k \in 0..n}

\* A list field of the parsed object: missing, an array, or a string.
ListFields(S) ==
    { [kind |-> "missing", items |-> <<>>], [kind |-> "string", items |-> <<>>] }
    \cup { [kind |-> "array", items |-> l] : l \in ListsUpTo(S, MaxEntries) }

\* What the service's answer is: no text block, text that JSON.parse
\* rejects, the text null, or an object.
AnalysisResponses ==
    { [kind |-> "noText"], [kind |-> "unparsable"], [kind |-> "null"] }
    \cup [kind : {"object"},
          interpretation : {"missing", "text"},
          symbols : ListFields(SymbolEntries),
          emotions : ListFields(EmotionEntries),
          themes : {"missing", "array", "string"},
          advice : {"missing", "text"}]

\* An emotion whose numeric intensity is passed on as it came.
NormalizeEmotionUnclamped(e) ==
    [name |-> IF e.name = "" THEN "Unknown" ELSE e.name,
     intensity |-> IF e.intensity.type = "number" THEN e.intensity.value ELSE 50]

\* name: e.name || 'Unknown'; intensity: typeof e.intensity === 'number'
\* ? Math.min(100, Math.max(0, e.intensity)) : 50
NormalizeEmotion(e) ==
    [name |-> IF e.name = "" THEN "Unknown" ELSE e.name,
     intensity |-> IF e.intensity.type = "number"
                   THEN Min(100, Max(0, e.intensity.value))
                   ELSE 50]

\* name: s.name || 'Unknown'; significance: one of the three, else 'medium'
NormalizeSymbol(s) ==
    [name |-> IF s.hasName /\ s.name # "" THEN s.name ELSE "Unknown",
     significance |-> IF s.hasSignificance /\ s.significance \in Significances
                      THEN s.significance ELSE "medium"]

\* (parsed.field || []).map(f) raises a TypeError on a string, which has no
\* map, and on a null element, whose fields f reads.
MapRaises(field) ==
    \/ field.kind = "string"
    \/ \E i \in 1..Len(field.items) : field.items[i].kind = "null"

AnalysisFailed == [raised |-> TRUE]

\* analyzeDream from the answer on: the parse, the object built from it, and
\* the catch that turns any error of the two into 'Failed to parse AI response'.
analyzeDream(response) ==
    IF response.kind # "object" THEN AnalysisFailed
    ELSE IF MapRaises(response.symbols) \/ MapRaises(response.emotions)
    THEN AnalysisFailed
    ELSE [raised |-> FALSE,
          interpretation |-> IF response.interpretation = "missing"
                             THEN "Unable to generate interpretation."
                             ELSE response.interpretation,
          symbols |-> [i \in 1..Len(response.symbols.items) |->
                          NormalizeSymbol(response.symbols.items[i])],
          emotions |-> [i \in 1..Len(response.emotions.items) |->
                          NormalizeEmotion(response.emotions.items[i])],
          themes |-> IF response.themes = "array" THEN <<"water">> ELSE <<>>,
          advice |-> IF response.advice = "missing" THEN "" ELSE response.advice]

InitNormalize ==
    /\ anaResponse \in AnalysisResponses
    /\ anaResult = [raised |-> FALSE]
    /\ anaPc = "ready"
    /\ SlugIdle /\ SelIdle /\ ValIdle /\ SchedInit
    /\ FmtIdle /\ StatusIdle /\ HistIdle /\ QuotaIdle /\ TweetIdle

\* await analyzeDream(...) settles.
AnalyzeDreamCall ==
    /\ anaPc = "ready"
    /\ anaResult' = analyzeDream(anaResponse)
    /\ anaPc' = "done"
    /\ UNCHANGED anaResponse
    /\ UNCHANGED <<slugVars, selVars, valVars, schedVars, fmtVars, statusLog,
                   histVars, quotaVars, tweetVars>>

NextNormalize == AnalyzeDreamCall

SpecNormalize == InitNormalize /\ [][NextNormalize]_vars

\* The answer is an object whose list fields, where present, are arrays of objects.
WellFormedAnswer ==
    /\ anaResponse.kind = "object"
    /\ anaResponse.symbols.kind # "string"
    /\ anaResponse.emotions.kind # "string"
    /\ \A i \in 1..Len(anaResponse.symbols.items) :
          anaResponse.symbols.items[i].kind = "object"

(* C25: in every analysis analyzeDream returns, each emotion intensity is a
   number from 0 to 100 and each symbol significance is high, medium or low,
   an unrecognized or missing one having become medium; an answer with
   missing fields yields an analysis with the defaults, not an error. *)
C25_AnalysisNormalized ==
    anaPc = "done" =>
        /\ ~anaResult.raised =>
              /\ \A i \in 1..Len(anaResult.emotions) :
                    anaResult.emotions[i].intensity \in 0..100
              /\ \A i \in 1..Len(anaResult.symbols) :
                    LET s == anaResponse.symbols.items[i]
                    IN  anaResult.symbols[i].significance =
                           IF s.hasSignificance /\ s.significance \in Significances
                           THEN s.significance ELSE "medium"
        /\ WellFormedAnswer =>
              /\ ~anaResult.raised
              /\ anaResponse.interpretation = "missing" =>
                    anaResult.interpretation = "Unable to generate interpretation."
              /\ anaResponse.symbols.kind = "missing" => anaResult.symbols = <<>>
              /\ anaResponse.emotions.kind = "missing" => anaResult.emotions = <<>>
              /\ anaResponse.themes # "array" => anaResult.themes = <<>>
              /\ anaResponse.advice = "missing" => anaResult.advice = ""

\* An answer without interpretation and symbols, with one intensity above
\* and one below the range, gave an analysis with the limits in their place.
C25_WitnessClampedAndDefaulted ==
    /\ anaPc = "done" /\ ~anaResult.raised
    /\ anaResponse.interpretation = "missing"
    /\ anaResponse.symbols.kind = "missing"
    /\ Len(anaResponse.emotions.items) = 2
    /\ anaResponse.emotions.items[1].intensity = [type |-> "number", value |-> 101]
    /\ anaResponse.emotions.items[2].intensity = [type |-> "number", value |-> 0 - 1]
    /\ anaResult.emotions[1].intensity = 100
    /\ anaResult.emotions[2].intensity = 0


---------------------------------------------------------------------------
(* The category of the rows the scheduler inserts                          *)

\* The rows inserted by runs the cron tasks started.
ScheduledRows == {row \in blog_posts : Scheduled(runs[row.run])}

(* C26: every row the scheduler inserts has one category of the fixed set:
   a morning firing and a dream firing of the evening trigger insert
   dream-stories with generation type ai-dream and the provenance payload;
   an educational firing inserts one of dream-science, sleep-tips, symbolism
   with generation type ai-educational, the category being the one its
   generation stage was given. *)
C26_ScheduledRowCategory ==
    \A row \in ScheduledRows :
        LET run == runs[row.run]
        IN  /\ row.category \in StrictCategories
            /\ run.trigger = "morning" => run.kind = "dream"
            /\ run.kind = "dream" =>
                  /\ row.category = "dream-stories"
                  /\ row.generation_type = "ai-dream"
                  /\ row.provenance
            /\ run.kind = "educational" =>
                  /\ row.category \in {"dream-science", "sleep-tips", "symbolism"}
                  /\ row.category = run.category
                  /\ row.generation_type = "ai-educational"
                  /\ ~row.provenance

\* The evening trigger saved a dream post and, two firings after its first
\* educational post, a sleep-tips post.
C26_WitnessBothBranchesSaved ==
    /\ \E row \in ScheduledRows :
          /\ runs[row.run].trigger = "evening" /\ runs[row.run].kind = "dream"
    /\ \E row \in ScheduledRows :
          /\ runs[row.run].kind = "educational" /\ row.category = "sleep-tips"


---------------------------------------------------------------------------
(* tweetNewBlogPost and POST /admin/twitter/test                           *)

\* The tweet requests of one behaviour.
MaxTweetRequests == 2

\* The keys of categoryBranding.
BrandedCategories == {"dream-stories", "dream-science", "sleep-tips", "symbolism"}

\* Rows of blog_posts as the route selects them; category is TEXT NOT NULL
\* with no constraint, so a row may carry one that has no branding.
TweetRowUniverse ==
    { [slug |-> "a", category |-> "dream-stories"],
      [slug |-> "b", category |-> "dream-story"] }

\* The slug of the request body; "" when the body has none.
TweetSlugs == {"", "a", "b"}

NoPost == [slug |-> "", category |-> ""]

NoTweetResult == [success |-> FALSE, tweetId |-> 0, error |-> ""]

\* A request as the route starts on it.
TweetRequest(slug, pc, status) ==
    [slug |-> slug, pc |-> pc, status |-> status, post |-> NoPost,
     called |-> FALSE, text |-> "", result |-> NoTweetResult, raised |-> FALSE]

\* A tweetNewBlogPost without its catch: the error reaches the route.
tweetNewBlogPostRethrow(req, message) ==
    [req EXCEPT !.raised = TRUE, !.pc = "done", !.status = 500]

\* The catch of tweetNewBlogPost: return { success: false, error: errorMessage }
tweetNewBlogPostCatch(req, message) ==
    [req EXCEPT !.result = [success |-> FALSE, tweetId |-> 0, error |-> message],
                !.pc = "respond"]

\* generateTweetContent with the service answering (ok) or throwing: the
\* text, or the branded fallback built in its catch.  For a category without
\* branding, reading branding.emoji raises in the try and again in the catch.
generateTweetContent(post, ok) ==
    IF post.category \notin BrandedCategories THEN [raised |-> TRUE, text |-> ""]
    ELSE [raised |-> FALSE, text |-> IF ok THEN "generated" ELSE "fallback"]

InitTweet ==
    /\ tweetConfigured \in BOOLEAN
    /\ tweetClient = FALSE
    /\ tweetPosts \in SUBSET TweetRowUniverse
    /\ tweetPostsAtStart = tweetPosts
    /\ tweetReqs = <<>>
    /\ SlugIdle /\ SelIdle /\ ValIdle /\ SchedInit
    /\ FmtIdle /\ StatusIdle /\ HistIdle /\ QuotaIdle /\ NormIdle

TweetFrame ==
    /\ UNCHANGED <<tweetConfigured, tweetPosts, tweetPostsAtStart>>
    /\ UNCHANGED <<slugVars, selVars, valVars, schedVars, fmtVars, statusLog,
                   histVars, quotaVars, normVars>>

\* POST /admin/twitter/test with x-admin-key = key and body {slug}: 401 on
\* a wrong key, 400 without a slug, else the post is fetched.
AdminTwitterTest(key, slug) ==
    /\ Len(tweetReqs) < MaxTweetRequests
    /\ tweetReqs' = Append(tweetReqs,
          IF key # EnvBlogAdminKey THEN TweetRequest(slug, "done", 401)
          ELSE IF slug = "" THEN TweetRequest(slug, "done", 400)
          ELSE TweetRequest(slug, "fetch", 0))
    /\ UNCHANGED tweetClient
    /\ TweetFrame

\* The select of the post by slug settles: 404 on an error or no row.
TweetFetchPost(i) ==
    /\ tweetReqs[i].pc = "fetch"
    /\ \E fetchError \in BOOLEAN :
          LET found == {row \in tweetPosts : row.slug = tweetReqs[i].slug}
          IN  tweetReqs' = [tweetReqs EXCEPT ![i] =
                  IF fetchError \/ found = {}
                  THEN [@ EXCEPT !.pc = "done", !.status = 404]
                  ELSE [@ EXCEPT !.pc = "client", !.post = CHOOSE row \in found : TRUE]]
    /\ UNCHANGED tweetClient
    /\ TweetFrame

\* tweetNewBlogPost starts: getTwitterClient returns the cached client,
\* null without credentials, or a new client that it caches.
TweetGetClient(i) ==
    /\ tweetReqs[i].pc = "client"
    /\ IF tweetClient \/ tweetConfigured
       THEN /\ tweetClient' = TRUE
            /\ tweetReqs' = [tweetReqs EXCEPT ![i] =
                                [@ EXCEPT !.called = TRUE, !.pc = "generate"]]
       ELSE /\ UNCHANGED tweetClient
            /\ tweetReqs' = [tweetReqs EXCEPT ![i] =
                  [@ EXCEPT !.called = TRUE, !.pc = "respond",
                            !.result = [success |-> FALSE, tweetId |-> 0,
                                        error |-> "Twitter client not configured"]]]
    /\ TweetFrame

\* await generateTweetContent(post) settles.
TweetGenerate(i) ==
    /\ tweetReqs[i].pc = "generate"
    /\ \E ok \in BOOLEAN :
          LET content == generateTweetContent(tweetReqs[i].post, ok)
          IN  tweetReqs' = [tweetReqs EXCEPT ![i] =
                  IF content.raised
                  THEN tweetNewBlogPostCatch(@, "TypeError")
                  ELSE [@ EXCEPT !.text = content.text, !.pc = "post"]]
    /\ UNCHANGED tweetClient
    /\ TweetFrame

\* await client.v2.tweet(tweetText) settles.
TweetPost(i) ==
    /\ tweetReqs[i].pc = "post"
    /\ \E ok \in BOOLEAN :
          tweetReqs' = [tweetReqs EXCEPT ![i] =
              IF ok
              THEN [@ EXCEPT !.result = [success |-> TRUE, tweetId |-> i, error |-> ""],
                             !.pc = "respond"]
              ELSE tweetNewBlogPostCatch(@, "posting failed")]
    /\ UNCHANGED tweetClient
    /\ TweetFrame

\* The route answers with the result: 200 when it succeeded, else 500.
TweetRespond(i) ==
    /\ tweetReqs[i].pc = "respond"
    /\ tweetReqs' = [tweetReqs EXCEPT ![i] =
          [@ EXCEPT !.pc = "done",
                    !.status = IF tweetReqs[i].result.success THEN 200 ELSE 500]]
    /\ UNCHANGED tweetClient
    /\ TweetFrame

NextTweet ==
    \/ \E key \in RequestKeys, slug \in TweetSlugs : AdminTwitterTest(key, slug)
    \/ \E i \in 1..Len(tweetReqs) : TweetFetchPost(i)
    \/ \E i \in 1..Len(tweetReqs) : TweetGetClient(i)
    \/ \E i \in 1..Len(tweetReqs) : TweetGenerate(i)
    \/ \E i \in 1..Len(tweetReqs) : TweetPost(i)
    \/ \E i \in 1..Len(tweetReqs) : TweetRespond(i)

SpecTweet == InitTweet /\ [][NextTweet]_vars

\* The requests in which tweetNewBlogPost has returned.
TweetReturned ==
    {i \in 1..Len(tweetReqs) :
        tweetReqs[i].called /\ tweetReqs[i].pc \in {"respond", "done"}}

(* C27: tweetNewBlogPost never raises: without a client, when the tweet text
   cannot be generated and when posting fails it returns a result that is
   not a success and names the error, or posts a fallback text; and whatever
   it returns, the stored articles are what they were before. *)
C27_TweetNeverRaisesNorWrites ==
    /\ tweetPosts = tweetPostsAtStart
    /\ \A i \in 1..Len(tweetReqs) :
          /\ ~tweetReqs[i].raised
          /\ tweetReqs[i].pc = "post" => tweetReqs[i].text \in {"generated", "fallback"}
    /\ \A i \in TweetReturned :
          /\ tweetReqs[i].result.success => tweetReqs[i].result.error = ""
          /\ ~tweetReqs[i].result.success => tweetReqs[i].result.error # ""
          /\ ~tweetConfigured => ~tweetReqs[i].result.success

\* One request's tweet could not be posted and was answered 500, another's
\* text fell back to the branded title and was posted; the article is stored.
C27_WitnessPostingFailed ==
    /\ tweetPosts # {}
    /\ \E i \in TweetReturned :
          /\ tweetReqs[i].result.error = "posting failed"
          /\ tweetReqs[i].status = 500
    /\ \E j \in TweetReturned :
          /\ tweetReqs[j].text = "fallback"
          /\ tweetReqs[j].result.success


---------------------------------------------------------------------------
(* The rotation of educational categories                                  *)

\* The number of generateEducationalContent calls made before run i started.
EducationalCallsBefore(i) == Cardinality({j \in ScheduledEducationalRuns : j < i})

(* C28: the k-th call of generateEducationalContent takes the k-th category
   of the cycle dream-science, sleep-tips, symbolism, dream-science, ...;
   the rotation index is 0, 1 or 2 and has advanced by one for every call
   made, whether the call saved a post, failed, or has not returned. *)
C28_CategoryRotation ==
    /\ currentCategoryIndex \in {0, 1, 2}
    /\ currentCategoryIndex = Cardinality(ScheduledEducationalRuns) % 3
    /\ \A i \in ScheduledEducationalRuns :
          runs[i].category = educationalCategories[(EducationalCallsBefore(i) % 3) + 1]

\* Three calls were made, the first of which failed and the second of which
\* has not returned: the third took symbolism and the index is back at 0.
C28_WitnessFullCycle ==
    /\ Cardinality(ScheduledEducationalRuns) = 3
    /\ runs[1].pc = "failed" /\ runs[1].category = "dream-science"
    /\ ~Finished(runs[2]) /\ runs[2].category = "sleep-tips"
    /\ runs[3].category = "symbolism"
    /\ currentCategoryIndex = 0


---------------------------------------------------------------------------
(* Starting and stopping the scheduler more than once                      *)

\* startBlogScheduler is called at most MaxLifecycleStarts times.
MaxLifecycleStarts == 2

\* The runs of one behaviour of the lifecycle specification.
MaxLifecycleRuns == 2

\* The cron tasks with startBlogScheduler called again while running.
NextLifecycle ==
    \/ StartBlogScheduler(MaxLifecycleStarts)
    \/ StopBlogScheduler
    \/ FireMorning(MaxLifecycleRuns)
    \/ FireEvening(MaxLifecycleRuns)
    \/ \E i \in 1..Len(runs) : StepGenerateDream(i)
    \/ \E i \in 1..Len(runs) : StepAnalyzeDream(i)
    \/ \E i \in 1..Len(runs) : StepFormat(i)
    \/ \E i \in 1..Len(runs) : StepValidate(i)
    \/ \E i \in 1..Len(runs) : StepInsert(i)
    \/ Tick

SpecLifecycle == Init /\ [][NextLifecycle]_vars

\* The last lifecycle call made was stopBlogScheduler: it has been called
\* and the map it cleared has not been filled by a start since.
StoppedLast == stopCalls > 0 /\ JobsSize(scheduledJobs) = 0

(* C29: when the last of any sequence of startBlogScheduler and
   stopBlogScheduler calls is a stop, no cron task the scheduler created is
   still armed. *)
C29_StoppedMeansNoneArmed == StoppedLast => cronTasks = {}


---------------------------------------------------------------------------
\* The requests for dream d whose analysis was produced and stored.
StoredAnalysesOf(d) == {i \in SuccessfulAnalyses : analysisReqs[i].dreamId = d}

(* C30: under any interleaving of the owner's analysis requests for one
   dream, at most one of them produces an analysis and stores it. *)
C30_DreamAnalysedOnce ==
    \A d \in DreamIds : Cardinality(StoredAnalysesOf(d)) <= 1

=============================================================================
